---- MODULE Spec2Model ----
(***************************************************************************)
(* CodeCollage: the append-only JSONL store, the MinHash/LSH clusterers,   *)
(* the pattern extractors and the CLI stages (ingest, index, synth, serve) *)
(* of both entry points of the repository:                                 *)
(*   - the "commands" build  (src/cli.ts, ./data/snippets.jsonl ...)       *)
(*   - the "core" build      (CodeCollage class, ./data/snippets/...)      *)
(* Text is modelled as a sequence of character codes.                      *)
(***************************************************************************)
EXTENDS Integers, Sequences, FiniteSets, TLC

VARIABLES
  log,          \* SpecStore: the log file the behaviour follows
  file,         \* SpecStore: the bytes of that file (character codes)
  written,      \* SpecStore: the records whose append completed, in order
  torn,         \* SpecStore: TRUE once an append was cut short by a crash
  ops,          \* SpecStore: number of appends attempted so far
  scan,         \* SpecStore: result of the most recent scan, with what the
                \*            log held when it was taken
  build,        \* which entry point runs: "commands" (src/cli.ts) or "core"
  snippetsLog,  \* decoded lines of the snippet log of that build
  clustersLog,  \* decoded lines of its cluster log
  patternsLog,  \* decoded lines of its pattern log
  clustering,   \* SpecCluster: the last clusterSnippets call: its input, its
                \*              hash family (seed) and the clusters it returned;
                \* SpecLsh, SpecLcs: the last candidate search or findLCS call
  metadata,     \* core build: per sidecar of data/metadata, the number of writes
                \*             and the value last written
  nextId,       \* the next value the random id generators hand out
  runs,         \* number of CLI invocations so far
  lastRun,      \* the last CLI invocation: command, options, exit code, output,
                \* the invocation before it and the data it started from
  serving,      \* TRUE while the HTTP server of the build is up
  response,     \* the last HTTP response
  indexing      \* SpecIndexing: the cc index invocation of the core build that
                \*               is in flight: its step and what it holds in memory

storeVars == <<log, file, written, torn, ops, scan>>
dataVars == <<build, snippetsLog, clustersLog, patternsLog>>

cliVars == <<metadata, nextId, runs, lastRun, serving, response, indexing>>

vars == <<log, file, written, torn, ops, scan,
          build, snippetsLog, clustersLog, patternsLog, clustering,
          metadata, nextId, runs, lastRun, serving, response, indexing>>

-----------------------------------------------------------------------------
(* Bounds *)

\* appends attempted in one behaviour of SpecStore
MaxOps == 2

\* snippets held by the snippet log
MaxSnippets == 3

\* snippets handed to one clusterSnippets call of SpecCluster
MaxInput == 3

\* CLI invocations in one behaviour of Spec
MaxRuns == 3

\* files one ingest invocation finds
MaxBatch == 2

\* HTTP requests in one behaviour of Spec
MaxRequests == 1

\* outcomes of the Math.random draws of one hash family that are told apart
NumSeeds == 2

\* --minhash-bands and --minhash-rows (20 and 5 by default), scaled down
Bands == 2
Rows == 2

\* tokens of a sequence handed to findLCS in SpecLcs
MaxTokens == 3

-----------------------------------------------------------------------------
(* Text helpers (String.prototype.split / trim on character codes) *)

\* the white space String.prototype.trim removes
IsSpace(c) == c \in {9, 10, 11, 12, 13, 32}

RECURSIVE TrimLeft(_)
TrimLeft(s) ==
  IF s # << >> /\ IsSpace(Head(s)) THEN TrimLeft(Tail(s)) ELSE s

RECURSIVE TrimRight(_)
TrimRight(s) ==
  IF s # << >> /\ IsSpace(s[Len(s)]) THEN TrimRight(SubSeq(s, 1, Len(s) - 1)) ELSE s

Trim(s) == TrimRight(TrimLeft(s))

\* the sequence with the elements of f, for f a function on 1..n
Array(f) == f \o << >>

\* TRUE.  TLC computes an argument when it is first read, so a loop written as
\* a recursion would carry its accumulator through the iterations as a nest of
\* pending computations; as a conjunct of the loop test, Computed(v) has the
\* accumulator v computed before the iteration goes on
Computed(v) == v = v

\* s.split(sep) for a one-character separator: the pieces between separators
Split(s, sep) ==
  LET cuts == {i \in 1..Len(s) : s[i] = sep}
      n == Cardinality(cuts)
      \* the position of separator k; 0 and Len(s) + 1 close the two ends
      cut(k) == IF k = 0 THEN 0
                ELSE IF k = n + 1 THEN Len(s) + 1
                ELSE CHOOSE i \in cuts : Cardinality({j \in cuts : j <= i}) = k
  IN Array([k \in 1..(n + 1) |-> SubSeq(s, cut(k - 1) + 1, cut(k) - 1)])

RECURSIVE Flatten(_)
Flatten(ss) == IF ss = << >> THEN << >> ELSE Head(ss) \o Flatten(Tail(ss))

\* the concatenation of the sequences of ss
Concat(ss) == Flatten(Array(ss))

-----------------------------------------------------------------------------
(* JSON.stringify / JSON.parse on the records the store holds.             *)
(* A record is {"id":<digit>,"content":"<string>"}: id stands for the      *)
(* scalar fields, content for the free-text fields of a stored record.     *)

\*  {"id":
JsonHead == <<123, 34, 105, 100, 34, 58>>
\*  ,"content":"
JsonMid == <<44, 34, 99, 111, 110, 116, 101, 110, 116, 34, 58, 34>>
\*  "}
JsonTail == <<34, 125>>

\* JSON.stringify of a string body: " -> \" , \ -> \\ , newline -> \n
RECURSIVE JsonEscape(_)
JsonEscape(s) ==
  IF s = << >> THEN << >>
  ELSE (CASE Head(s) = 34 -> <<92, 34>>
          [] Head(s) = 92 -> <<92, 92>>
          [] Head(s) = 10 -> <<92, 110>>
          [] OTHER -> <<Head(s)>>) \o JsonEscape(Tail(s))

Stringify(rec) ==
  JsonHead \o <<48 + rec.id>> \o JsonMid \o JsonEscape(rec.content) \o JsonTail

JsonError == [ok |-> FALSE]

\* the string body from position i of b up to its closing quote, which must be
\* followed by } and the end of the text; JsonError is JSON.parse throwing
RECURSIVE ParseString(_, _, _)
ParseString(b, i, acc) ==
  IF i > Len(b) THEN JsonError
  ELSE IF b[i] = 34
    THEN IF SubSeq(b, i + 1, Len(b)) = <<125>>
         THEN [ok |-> TRUE, content |-> acc] ELSE JsonError
  ELSE IF b[i] = 92
    THEN IF i + 1 > Len(b) THEN JsonError
         ELSE IF b[i + 1] = 110 THEN ParseString(b, i + 2, Append(acc, 10))
         ELSE IF b[i + 1] \in {34, 92} THEN ParseString(b, i + 2, Append(acc, b[i + 1]))
         ELSE JsonError
  ELSE IF b[i] < 32 THEN JsonError
  ELSE ParseString(b, i + 1, Append(acc, b[i]))

JsonParse(text) ==
  LET h == Len(JsonHead)
      m == Len(JsonMid)
  IN IF /\ Len(text) >= h + 1 + m
        /\ SubSeq(text, 1, h) = JsonHead
        /\ text[h + 1] \in 48..57
        /\ SubSeq(text, h + 2, h + 1 + m) = JsonMid
     THEN LET str == ParseString(text, h + 2 + m, << >>)
          IN IF str.ok
             THEN [ok |-> TRUE, value |-> [id |-> text[h + 1] - 48, content |-> str.content]]
             ELSE JsonError
     ELSE JsonError

-----------------------------------------------------------------------------
(* JSONLStorage of the commands build (src/src/storage/jsonl.ts) and of the *)
(* core build (src/unnamed/part_003)                                        *)

CmdLogs == {"data/snippets.jsonl", "data/clusters.jsonl", "data/patterns.jsonl"}
CoreLogs == {"data/snippets/snippets.jsonl", "data/clusters/clusters.jsonl",
             "data/patterns/patterns.jsonl"}

\* const line = JSON.stringify(snippet) + '\n'
JsonLine_NoNewline(rec) == Stringify(rec)

JsonLine(rec) == Stringify(rec) \o <<10>>

\* snippets.map(snippet => JSON.stringify(snippet) + '\n').join('')
JsonLines(recs) == Concat([i \in 1..Len(recs) |-> JsonLine(recs[i])])

\* .map(line => JSON.parse(line)) inside try { } catch { return [] }: one line
\* that does not parse makes the whole read return []
ParseAllOrNothing(lines) ==
  IF \A i \in 1..Len(lines) : JsonParse(lines[i]).ok
  THEN [i \in 1..Len(lines) |-> JsonParse(lines[i]).value]
  ELSE << >>

\* readSnippets / readClusters / readPatterns
ReadLines(content) ==
  LET kept(line) == Trim(line) # << >>
  IN ParseAllOrNothing(SelectSeq(Split(content, 10), kept))

\* loadJSONL
LoadJSONL(content) ==
  LET kept(line) == Len(line) > 0
  IN ParseAllOrNothing(SelectSeq(Split(Trim(content), 10), kept))

ScanOf(l, content) == IF l \in CmdLogs THEN ReadLines(content) ELSE LoadJSONL(content)

-----------------------------------------------------------------------------
(* SpecStore: appends (whole, batched, or cut short by a crash) and scans   *)
(* of one log.                                                              *)

\* free-text values: a, newline, quote  /  backslash, n
StoreContents == {<<97, 10, 34>>, <<92, 110>>}

StoreRecords == {[id |-> i, content |-> c] : i \in {Len(written) + 1}, c \in StoreContents}

NoScan == [done |-> FALSE]
NoClustering == [done |-> FALSE]

\* the sidecars CodeCollage writes with saveMetadata
MetadataKeys == {"config", "indexStats", "synthesisStats"}

NoMetadata == [key \in MetadataKeys |-> [writes |-> 0, value |-> "none"]]

NoRun ==
  [command |-> "none", options |-> "", exitCode |-> 0, output |-> << >>,
   previous |-> [command |-> "none", options |-> ""],
   before |-> [snippets |-> << >>, clusters |-> << >>, patterns |-> << >>,
               metadata |-> NoMetadata]]

NoResponse == [seq |-> 0, status |-> 0, items |-> 0]
\* no index invocation in flight
NoIndexing == [step |-> "none"]

\* no CLI invocation and no HTTP request yet, on an empty data directory
IdleCli ==
  /\ metadata = NoMetadata
  /\ nextId = 1
  /\ runs = 0
  /\ lastRun = NoRun
  /\ serving = FALSE
  /\ response = NoResponse
  /\ indexing = NoIndexing

\* what a reader that skipped malformed lines would return: the records of the
\* lines that parse, in order
WellFormedRecords(content) ==
  LET kept(line) == Trim(line) # << >> /\ JsonParse(line).ok
      good == SelectSeq(Split(content, 10), kept)
  IN [i \in 1..Len(good) |-> JsonParse(good[i]).value]

InitStore ==
  /\ log \in CmdLogs \cup CoreLogs
  /\ file = << >>
  /\ written = << >>
  /\ torn = FALSE
  /\ ops = 0
  /\ scan = NoScan
  /\ build = "commands"
  /\ snippetsLog = << >>
  /\ clustersLog = << >>
  /\ patternsLog = << >>
  /\ clustering = NoClustering
  /\ IdleCli

\* appendSnippet / appendCluster / appendPattern, and saveSnippet / saveCluster /
\* savePattern: fs.appendFile(filepath, line)
AppendRecord(rec) ==
  /\ ops < MaxOps
  /\ file' = file \o JsonLine(rec)
  /\ written' = Append(written, rec)
  /\ ops' = ops + 1
  /\ UNCHANGED <<log, torn, scan, dataVars, clustering, cliVars>>

\* saveSnippets / saveClusters / savePatterns: one appendFile of all the lines
SaveRecords(recs) ==
  /\ log \in CoreLogs
  /\ ops < MaxOps
  /\ file' = file \o JsonLines(recs)
  /\ written' = written \o recs
  /\ ops' = ops + 1
  /\ UNCHANGED <<log, torn, scan, dataVars, clustering, cliVars>>

\* the process dies inside fs.appendFile: only the first k characters of the
\* line reach the file
CrashInAppend(rec, k) ==
  /\ ops < MaxOps
  /\ file' = file \o SubSeq(JsonLine(rec), 1, k)
  /\ torn' = TRUE
  /\ ops' = ops + 1
  /\ UNCHANGED <<log, written, scan, dataVars, clustering, cliVars>>

\* readSnippets / readClusters / readPatterns, loadSnippets / loadClusters /
\* loadPatterns
Scan ==
  /\ scan' = [done |-> TRUE, result |-> ScanOf(log, file), written |-> written,
              torn |-> torn, wellFormed |-> WellFormedRecords(file)]
  /\ UNCHANGED <<log, file, written, torn, ops, dataVars, clustering, cliVars>>

NextStore ==
  \/ \E rec \in StoreRecords : AppendRecord(rec)
  \/ \E r1 \in StoreRecords : \E c \in StoreContents :
       SaveRecords(<<r1, [id |-> r1.id + 1, content |-> c]>>)
  \/ \E rec \in StoreRecords :
       \E k \in {Len(JsonLine(rec)) \div 2, Len(JsonLine(rec)) - 1} : CrashInAppend(rec, k)
  \/ Scan

SpecStore == InitStore /\ [][NextStore]_vars

-----------------------------------------------------------------------------
(* C1: after any sequence of completed appends to one log, starting from   *)
(* the empty log, a scan returns exactly the appended records, equal field *)
(* by field, in insertion order.                                           *)
AppendScanRoundTrip ==
  (scan.done /\ ~scan.torn) => scan.result = scan.written

\* a scan has returned two or more records, one of them with a newline and a
\* quote in its text, from a log written by completed appends only
AppendScanRoundTripWitness ==
  /\ scan.done /\ ~scan.torn
  /\ Len(scan.written) >= 2
  /\ \E i \in 1..Len(scan.result) : scan.result[i].content = <<97, 10, 34>>
  /\ \E i \in 1..Len(scan.result) : scan.result[i].content = <<92, 110>>

(* C2: a scan of a log that holds malformed lines does not abort: it       *)
(* returns every well-formed record of the log, in insertion order, and    *)
(* drops only the malformed lines.                                         *)
ScanSkipsMalformedLines ==
  scan.done => scan.result = scan.wellFormed

-----------------------------------------------------------------------------
(* Sequences as the code uses arrays, Sets and Maps (insertion order)       *)

Range(s) == {s[i] : i \in 1..Len(s)}

\* the values of s in the order of their first occurrence: what iterating a
\* Set gives after adding the elements of s one by one
Distinct(s) ==
  LET firsts == {i \in 1..Len(s) : \A j \in 1..(i - 1) : s[j] # s[i]}
      at(k) == CHOOSE i \in firsts : Cardinality({j \in firsts : j <= i}) = k
  IN Array([k \in 1..Cardinality(firsts) |-> s[at(k)]])

\* Array.prototype.join with a one-character separator
RECURSIVE Join(_, _)
Join(parts, sep) ==
  IF parts = << >> THEN << >>
  ELSE IF Len(parts) = 1 THEN parts[1]
  ELSE parts[1] \o <<sep>> \o Join(Tail(parts), sep)

\* Math.min over a non-empty set
MinOf(S) == CHOOSE x \in S : \A y \in S : x <= y

-----------------------------------------------------------------------------
(* Tokenizers.  The texts of the corpus hold letters, digits-free words and *)
(* blanks, so the comment, string-literal and number rewrites of both       *)
(* tokenizers leave them as they are; splitting and lower-casing are        *)
(* modelled character by character.                                         *)

ToLower(c) == IF c \in 65..90 THEN c + 32 ELSE c

LowerCase(s) == Array([i \in 1..Len(s) |-> ToLower(s[i])])

\* the non-empty maximal runs of characters of s that are outside seps
Fields(s, seps) ==
  LET inside(i) == i \in 1..Len(s) /\ s[i] \notin seps
      starts == {i \in 1..Len(s) : inside(i) /\ ~inside(i - 1)}
      \* the start of run k and the last character of the run that starts at i
      start(k) == CHOOSE i \in starts : Cardinality({j \in starts : j <= i}) = k
      last(i) == CHOOSE j \in i..Len(s) : (\A m \in i..j : inside(m)) /\ ~inside(j + 1)
  IN Array([k \in 1..Cardinality(starts) |-> SubSeq(s, start(k), last(start(k)))])

\* CodeTokenizer.OPERATORS  + - * / % = < > ! & | ^ ~ ? : ; , . [ ] { } ( )
Operators ==
  {33, 37, 38, 40, 41, 42, 43, 44, 45, 46, 47, 58, 59, 60, 61, 62, 63, 91, 93,
   94, 123, 124, 125, 126}

\* \s of the texts: tab, line feed, vertical tab, form feed, return, blank
WhiteSpace == {9, 10, 11, 12, 13, 32}

\* CodeTokenizer.tokenize: split on operators and white space, drop the empty
\* pieces, lower-case
CodeTokenize(code) ==
  LET pieces == Fields(code, Operators \cup WhiteSpace)
  IN Array([i \in 1..Len(pieces) |-> LowerCase(pieces[i])])

\* \w and $ . _  of Tokenizer.extractTokens
WordChars == (48..57) \cup (65..90) \cup (97..122) \cup {36, 46, 95}

\* Tokenizer.tokenize: split on runs of other characters, skip tokens shorter
\* than two characters and pure numbers, lower-case
Tokenize(content) ==
  LET pieces == Fields(content, (0..127) \ WordChars)
      kept(t) == Len(t) >= 2 /\ ~(\A i \in 1..Len(t) : t[i] \in 48..57)
      raw == SelectSeq(pieces, kept)
  IN Array([k \in 1..Len(raw) |-> LowerCase(raw[k])])

-----------------------------------------------------------------------------
(* The hash family of generateHashFunctions (MinHashClusterer and           *)
(* MinHashLSH hold the same code):  x -> (a * h(x) + b) % p  with           *)
(* h(x) the base-31 polynomial hash of the character codes of x.            *)

\* const p = 2147483647
P == 2147483647

\* (x + y) % p for x, y < p, without leaving the 32-bit integers
AddMod(x, y) == IF x >= P - y THEN x - (P - y) ELSE x + y

\* y * 2^k mod p for 0 <= y <= p and 0 < k < 31: p is 2^31 - 1, so the
\* multiplication rotates the 31 bits of y
ShiftMod(y, k) == (((y % (2^(31 - k))) * 2^k) + (y \div (2^(31 - k)))) % P

\* (a * x) % p for a < 2^20 and x <= p, which JavaScript computes exactly in a
\* double; here from the 10-bit halves of a and the 16-bit halves of x, so
\* that no intermediate value leaves the 32-bit integers
MulMod(a, x) ==
  LET a1 == a \div 1024
      a0 == a % 1024
      x1 == x \div 65536
      x0 == x % 65536
  IN AddMod(AddMod(ShiftMod(a1 * x1, 26), ShiftMod(a1 * x0, 10)),
            AddMod(ShiftMod(a0 * x1, 16), a0 * x0))

\* for (j ...) hash = ((hash * 31) + x.charCodeAt(j)) % p, for j from lo to hi
\* and from the given hash: the loop is run as its first half followed by its
\* second half
RECURSIVE PolyHash(_, _, _, _)
PolyHash(x, lo, hi, hash) ==
  IF Computed(hash) /\ lo > hi THEN hash
  ELSE IF lo = hi THEN AddMod(MulMod(31, hash), x[lo])
  ELSE LET mid == (lo + hi) \div 2
       IN PolyHash(x, mid + 1, hi, PolyHash(x, lo, mid, hash))

\* the outcomes of the Math.random draws of one generateHashFunctions call
Seeds == 1..NumSeeds

\* Seeds and the outcome 0, in which the draws repeat those of outcome 1 one
\* band later: function i + Rows of 0 is function i of 1, and the functions
\* of the first band of 0 are those of the last band of 1
AllSeeds == Seeds \cup {0}

\* the function of outcome 1 that function i of outcome 0 repeats
Repeated(i) == ((i + (Bands - 1) * Rows - 1) % (Bands * Rows)) + 1

\* a = Math.floor(Math.random() * 1000000) + 1 of function i under a seed
HashA(seed, i) ==
  IF seed = 0 THEN 1 + ((2004 + Repeated(i) * 1551) % 1000000)
  ELSE 1 + ((seed * 2004 + i * 1551) % 1000000)

\* b = Math.floor(Math.random() * 1000000)
HashB(seed, i) ==
  IF seed = 0 THEN (4999 + Repeated(i) * 1207) % 1000000
  ELSE (seed * 4999 + i * 1207) % 1000000

\* return (a * hash + b) % p  of function i
Affine(seed, i, hash) == AddMod(MulMod(HashA(seed, i), hash), HashB(seed, i))

\* hashFunctions[i](x)
HashFunction(seed, i, x) == Affine(seed, i, PolyHash(x, 1, Len(x), 0))

\* the minimum of hashFunctions[i] over the strings whose polynomial hashes
\* are polys, for every i of 1..count
MinHashes(seed, count, polys) ==
  Array([i \in 1..count |-> MinOf({Affine(seed, i, h) : h \in polys})])

\* Infinity of the signatures: above every value a hash function returns
Infinity == P

\* a similarity, matches / length, kept as the two integers
Ratio(num, den) == [num |-> num, den |-> den]

\* a >= b on ratios with positive denominators
AtLeast(a, b) == a.num * b.den >= b.num * a.den

-----------------------------------------------------------------------------
(* MinHashClusterer (src/src/clustering/minhash.ts), the clusterer of the   *)
(* commands build.  A snippet is [id, content]; seed stands for the hash    *)
(* functions the constructor drew.                                          *)

\* minClusterSize: 2 of indexCommand
MinClusterSize == 2

\* the ClusteringConfig indexCommand builds; similarityThreshold: 0.7
IndexConfig ==
  [minhashBands |-> Bands, minhashRows |-> Rows,
   similarityThreshold |-> Ratio(7, 10), minClusterSize |-> MinClusterSize]

RECURSIVE SumSeq(_)
SumSeq(s) == IF s = << >> THEN 0 ELSE Head(s) + SumSeq(Tail(s))

GenerateShingles(tokens, size) ==
  Array([i \in 1..(IF Len(tokens) >= size THEN Len(tokens) - size + 1 ELSE 0) |->
           Join(SubSeq(tokens, i, i + size - 1), 32)])

\* generateSignature with a signature array that starts filled with the id
\* of the snippet instead of Infinity
GenerateSignature_FilledWithId(snippet, config, seed) ==
  LET shingles == GenerateShingles(CodeTokenize(snippet.content), 3)
      count == config.minhashBands * config.minhashRows
      signature == IF shingles = << >> THEN Array([i \in 1..count |-> snippet.id])
                   ELSE MinHashes(seed, count, {PolyHash(sh, 1, Len(sh), 0) : sh \in Range(shingles)})
  IN [signature |-> signature,
      bands |-> Array([b \in 1..config.minhashBands |->
                   SubSeq(signature, (b - 1) * config.minhashRows + 1, b * config.minhashRows)]),
      snippetId |-> snippet.id]

GenerateSignature(snippet, config, seed) ==
  LET shingles == GenerateShingles(CodeTokenize(snippet.content), 3)
      count == config.minhashBands * config.minhashRows
      signature == IF shingles = << >> THEN Array([i \in 1..count |-> Infinity])
                   ELSE MinHashes(seed, count, {PolyHash(sh, 1, Len(sh), 0) : sh \in Range(shingles)})
  IN [signature |-> signature,
      bands |-> Array([b \in 1..config.minhashBands |->
                   SubSeq(signature, (b - 1) * config.minhashRows + 1, b * config.minhashRows)]),
      snippetId |-> snippet.id]

\* matches / sig1.signature.length
CalculateSimilarity(sig1, sig2) ==
  Ratio(Cardinality({i \in 1..Len(sig1.signature) : sig1.signature[i] = sig2.signature[i]}),
        Len(sig1.signature))

\* band.join(','): two bands give the same string exactly when they are equal
HashBand(band) == band

\* [bucket[i], bucket[j]].sort().join(',')
SortPair(a, b) == IF a <= b THEN <<a, b>> ELSE <<b, a>>

\* the pairs the two nested loops over one bucket add, in that order
BucketPairs(bucket) ==
  Concat([i \in 1..Len(bucket) |->
            [j \in 1..(Len(bucket) - i) |-> SortPair(bucket[i], bucket[i + j])]])

\* the values of bandBuckets, in the order the keys were first set
BandBuckets(signatures) ==
  LET entries == Concat([k \in 1..Len(signatures) |->
                           [b \in 1..Len(signatures[k].bands) |->
                              [key |-> <<b, HashBand(signatures[k].bands[b])>>,
                               id |-> signatures[k].snippetId]]])
      keys == Distinct(Array([e \in 1..Len(entries) |-> entries[e].key]))
  IN Array([k \in 1..Len(keys) |->
        LET inBucket(e) == e.key = keys[k]
            members == SelectSeq(entries, inBucket)
        IN Array([m \in 1..Len(members) |-> members[m].id])])

FindCandidatePairs(signatures) ==
  LET buckets == BandBuckets(signatures)
  IN Distinct(Concat([k \in 1..Len(buckets) |->
                        IF Len(buckets[k]) > 1 THEN BucketPairs(buckets[k]) ELSE << >>]))

\* sigMap.get(id)
SigOf(signatures, id) ==
  LET at == {k \in 1..Len(signatures) : signatures[k].snippetId = id}
  IN signatures[CHOOSE k \in at : \A other \in at : other <= k]

\* the candidate pairs that pass  similarity >= this.config.similarityThreshold
SimilarPairs_NoThreshold(signatures, pairs, threshold) == pairs

SimilarPairs(signatures, pairs, threshold) ==
  LET similar(pr) == AtLeast(CalculateSimilarity(SigOf(signatures, pr[1]),
                                                 SigOf(signatures, pr[2])), threshold)
  IN SelectSeq(pairs, similar)

\* similarityGraph: for every id the neighbours in the order they were added
SimilarityGraph(ids, edges) ==
  [id \in Range(ids) |->
     LET touches(pr) == id \in {pr[1], pr[2]}
         mine == SelectSeq(edges, touches)
     IN Array([n \in 1..Len(mine) |-> IF mine[n][1] = id THEN mine[n][2] ELSE mine[n][1]])]

\* the while loop of findConnectedComponent
RECURSIVE ComponentLoop(_, _, _, _)
ComponentLoop(stack, graph, visited, component) ==
  IF Computed(<<visited, component>>) /\ stack = << >>
  THEN [component |-> component, visited |-> visited]
  ELSE LET id == stack[Len(stack)]
           rest == SubSeq(stack, 1, Len(stack) - 1)
           fresh(n) == n \notin visited \cup {id}
       IN IF id \in visited THEN ComponentLoop(rest, graph, visited, component)
          ELSE ComponentLoop(rest \o SelectSeq(graph[id], fresh), graph,
                             visited \cup {id}, Append(component, id))

FindConnectedComponent(startId, graph, visited) ==
  ComponentLoop(<<startId>>, graph, visited, << >>)

\* the sum of the similarities of cluster[k] to the other ids, as matches
TotalSimilarity(cluster, signatures, k) ==
  SumSeq(Array([o \in 1..Len(cluster) |->
            IF cluster[o] = cluster[k] THEN 0
            ELSE CalculateSimilarity(SigOf(signatures, cluster[k]),
                                     SigOf(signatures, cluster[o])).num]))

\* the loop of findCentroid; every average has the same divisors, so the
\* totals are compared (0 / 0 of a one-element cluster is NaN: never greater)
RECURSIVE CentroidLoop(_, _, _, _, _)
CentroidLoop(cluster, signatures, k, bestCentroid, maxTotal) ==
  IF Computed(<<bestCentroid, maxTotal>>) /\ k > Len(cluster) THEN bestCentroid
  ELSE LET total == TotalSimilarity(cluster, signatures, k)
       IN IF Len(cluster) > 1 /\ total > maxTotal
          THEN CentroidLoop(cluster, signatures, k + 1, cluster[k], total)
          ELSE CentroidLoop(cluster, signatures, k + 1, bestCentroid, maxTotal)

\* findCentroid with avgSimilarity >= maxAvgSimilarity: the last of the
\* members tied for the maximum
FindCentroid_LastOfTies(cluster, signatures) ==
  cluster[CHOOSE k \in 1..Len(cluster) :
            /\ \A o \in 1..Len(cluster) :
                 TotalSimilarity(cluster, signatures, o) <= TotalSimilarity(cluster, signatures, k)
            /\ \A o \in (k + 1)..Len(cluster) :
                 TotalSimilarity(cluster, signatures, o) < TotalSimilarity(cluster, signatures, k)]

FindCentroid_FirstSignature(cluster, signatures) == signatures[1].snippetId

FindCentroid(cluster, signatures) == CentroidLoop(cluster, signatures, 1, cluster[1], 0)

CalculateClusterSimilarity(cluster, signatures) ==
  IF Len(cluster) < 2 THEN Ratio(1, 1)
  ELSE LET pairs == {pr \in (1..Len(cluster)) \X (1..Len(cluster)) : pr[1] < pr[2]}
           matches(pr) == CalculateSimilarity(SigOf(signatures, cluster[pr[1]]),
                                              SigOf(signatures, cluster[pr[2]])).num
           all == Array([i \in 1..Len(cluster) |->
                     SumSeq(Array([j \in 1..Len(cluster) |->
                                     IF i < j THEN matches(<<i, j>>) ELSE 0]))])
       IN Ratio(SumSeq(all), Cardinality(pairs) * Len(signatures[1].signature))

\* the loop of clusterSnippets over the snippet ids: one component per id not
\* visited yet, kept when it has minClusterSize members; the id of a cluster is
\* cluster-<number of clusters kept before it>
RECURSIVE ClustersLoop(_, _, _, _, _, _, _)
ClustersLoop(ids, k, graph, signatures, config, visited, clusters) ==
  IF Computed(<<visited, clusters>>) /\ k > Len(ids) THEN clusters
  ELSE IF ids[k] \in visited
    THEN ClustersLoop(ids, k + 1, graph, signatures, config, visited, clusters)
  ELSE LET found == FindConnectedComponent(ids[k], graph, visited)
           cluster == found.component
       IN IF Len(cluster) >= config.minClusterSize
          THEN ClustersLoop(ids, k + 1, graph, signatures, config, found.visited,
                 Append(clusters,
                        [id |-> Len(clusters), snippets |-> cluster,
                         centroid |-> FindCentroid(cluster, signatures),
                         size |-> Len(cluster),
                         similarity |-> CalculateClusterSimilarity(cluster, signatures)]))
          ELSE ClustersLoop(ids, k + 1, graph, signatures, config, found.visited, clusters)

\* clusterSnippets of a MinHashClusterer built with config, whose constructor
\* drew the hash functions of seed (patterns: [] and the timestamp of a
\* cluster are left out)
ClusterSnippets(snippets, config, seed) ==
  LET signatures == Array([k \in 1..Len(snippets) |->
                             GenerateSignature(snippets[k], config, seed)])
      candidatePairs == FindCandidatePairs(signatures)
      ids == Array([k \in 1..Len(snippets) |-> snippets[k].id])
      edges == SimilarPairs(signatures, candidatePairs, config.similarityThreshold)
      graph == SimilarityGraph(ids, edges)
  IN ClustersLoop(ids, 1, graph, signatures, config, {}, << >>)

-----------------------------------------------------------------------------
(* MinHashLSH (src/unnamed/part_004) and Clusterer (src/unnamed/part_005),  *)
(* the clusterer of the core build.  A snippet is                           *)
(* [id, content, language, tokens, minHashes, clusterId].                   *)

\* DEFAULT_CONFIG, with the bands and rows of the model
CoreConfig ==
  [minHashBands |-> Bands, minHashRows |-> Rows, ngramSize |-> 3,
   similarityThreshold |-> Ratio(8, 10), clusterThreshold |-> Ratio(7, 10)]

\* computeMinHash of a MinHashLSH whose constructor drew the functions of seed
ComputeMinHash(tokens, config, seed) ==
  LET tokenSet == Range(tokens)
      count == config.minHashBands * config.minHashRows
  IN IF tokenSet = {} THEN Array([i \in 1..count |-> 0])
     ELSE MinHashes(seed, count, {PolyHash(t, 1, Len(t), 0) : t \in tokenSet})

\* the bands, each standing for its band.join(',')
ComputeLSHSignature(minHashSignature, config) ==
  Array([b \in 1..config.minHashBands |->
     LET bandStart == (b - 1) * config.minHashRows
         bandEnd == IF bandStart + config.minHashRows <= Len(minHashSignature)
                    THEN bandStart + config.minHashRows ELSE Len(minHashSignature)
     IN SubSeq(minHashSignature, bandStart + 1, bandEnd)])

\* the loop of addSnippet over the band signatures; buckets is the Map as the
\* sequence of its values [signature, snippets] in insertion order
RECURSIVE AddBands(_, _, _)
AddBands(buckets, lshSignature, id) ==
  IF Computed(buckets) /\ lshSignature = << >> THEN buckets
  ELSE LET bandSignature == Head(lshSignature)
           known == \E k \in 1..Len(buckets) : buckets[k].signature = bandSignature
           with == IF known THEN buckets
                   ELSE Append(buckets, [signature |-> bandSignature, snippets |-> << >>])
           pushed == Array([k \in 1..Len(with) |->
                        IF with[k].signature = bandSignature /\ id \notin Range(with[k].snippets)
                        THEN [with[k] EXCEPT !.snippets = Append(@, id)]
                        ELSE with[k]])
       IN AddBands(pushed, Tail(lshSignature), id)

AddSnippet(buckets, snippet, config) ==
  AddBands(buckets, ComputeLSHSignature(snippet.minHashes, config), snippet.id)

FindCandidates(buckets, snippet, config) ==
  LET lshSignature == ComputeLSHSignature(snippet.minHashes, config)
      others(id) == id # snippet.id
  IN Distinct(Concat([b \in 1..Len(lshSignature) |->
        LET isBucket(bucket) == bucket.signature = lshSignature[b]
            hit == SelectSeq(buckets, isBucket)
        IN IF hit = << >> THEN << >> ELSE SelectSeq(hit[1].snippets, others)]))

\* MinHashLSH.calculateSimilarity on signatures of one length
LshSimilarity(signature1, signature2) ==
  Ratio(Cardinality({i \in 1..Len(signature1) : signature1[i] = signature2[i]}),
        Len(signature1))

\* snippets.find(s => s.id === id)
FindSnippet(snippets, id) ==
  LET at == {k \in 1..Len(snippets) : snippets[k].id = id}
  IN snippets[CHOOSE k \in at : \A other \in at : k <= other]

\* createCluster (the centroid, an average signature nothing reads, and the
\* timestamp are left out)
CreateCluster(clusterId, snippetIds, allSnippets) ==
  [id |-> clusterId, snippets |-> snippetIds, size |-> Len(snippetIds),
   languages |-> Distinct(Array([k \in 1..Len(snippetIds) |->
                                   FindSnippet(allSnippets, snippetIds[k]).language]))]

RECURSIVE AddAll(_, _, _, _)
AddAll(buckets, snippets, k, config) ==
  IF Computed(buckets) /\ k > Len(snippets) THEN buckets
  ELSE AddAll(AddSnippet(buckets, snippets[k], config), snippets, k + 1, config)

\* the candidates of a seed snippet that pass the cluster threshold, without
\* the test  if (clustered.has(candidateId)) continue
SimilarTo_IgnoresClustered(snippet, candidates, snippets, clustered, config) ==
  LET similar(id) ==
        /\ id \in {snippets[k].id : k \in 1..Len(snippets)}
        /\ AtLeast(LshSimilarity(snippet.minHashes, FindSnippet(snippets, id).minHashes),
                   config.clusterThreshold)
  IN SelectSeq(candidates, similar)

\* the candidates of a seed snippet that pass the cluster threshold
SimilarTo(snippet, candidates, snippets, clustered, config) ==
  LET similar(id) ==
        /\ id \notin clustered
        /\ id \in {snippets[k].id : k \in 1..Len(snippets)}
        /\ AtLeast(LshSimilarity(snippet.minHashes, FindSnippet(snippets, id).minHashes),
                   config.clusterThreshold)
  IN SelectSeq(candidates, similar)

\* the second loop of Clusterer.clusterSnippets: a cluster around every snippet
\* not clustered yet that has a similar candidate
RECURSIVE StarLoop(_, _, _, _, _, _, _)
StarLoop(snippets, k, buckets, config, clustered, clusters, nextClusterId) ==
  IF Computed(<<clustered, clusters>>) /\ k > Len(snippets)
  THEN [clusters |-> clusters, clustered |-> clustered]
  ELSE IF snippets[k].id \in clustered
    THEN StarLoop(snippets, k + 1, buckets, config, clustered, clusters, nextClusterId)
  ELSE LET snippet == snippets[k]
           candidates == FindCandidates(buckets, snippet, config)
           similarSnippets ==
             <<snippet.id>> \o SimilarTo(snippet, candidates, snippets, clustered, config)
       IN IF Len(similarSnippets) > 1
          THEN StarLoop(snippets, k + 1, buckets, config,
                        clustered \cup Range(similarSnippets),
                        Append(clusters, CreateCluster(nextClusterId + Len(clusters),
                                                       similarSnippets, snippets)),
                        nextClusterId)
          ELSE StarLoop(snippets, k + 1, buckets, config, clustered, clusters, nextClusterId)

\* Clusterer.clusterSnippets on a new Clusterer; the generated cluster ids are
\* nextClusterId, nextClusterId + 1, ...
CoreClusterSnippets(snippets, config, nextClusterId) ==
  LET buckets == AddAll(<< >>, snippets, 1, config)
      stars == StarLoop(snippets, 1, buckets, config, {}, << >>, nextClusterId)
      alone(snippet) == snippet.id \notin stars.clustered
      singles == SelectSeq(snippets, alone)
  IN stars.clusters \o
     Array([k \in 1..Len(singles) |->
        CreateCluster(nextClusterId + Len(stars.clusters) + k - 1, <<singles[k].id>>, snippets)])

-----------------------------------------------------------------------------
(* Pattern extraction of the commands build: the functions beside          *)
(* synthCommand (src/src/storage/jsonl.ts), CodeTokenizer.normalize and     *)
(* CodeTokenizer.detectLanguage (src/src/core/config.ts).                   *)

\* langMap[ext] || 'unknown'
CodeDetectLanguage(ext) ==
  CASE ext \in {"js", "jsx"} -> "javascript"
    [] ext \in {"ts", "tsx"} -> "typescript"
    [] ext = "py" -> "python"
    [] ext \in {"java", "cpp", "c", "go", "php", "swift"} -> ext
    [] ext = "rs" -> "rust"
    [] ext = "rb" -> "ruby"
    [] ext = "cs" -> "csharp"
    [] ext = "kt" -> "kotlin"
    [] OTHER -> "unknown"

\* normalizeJavaScript: const let var -> VAR, function -> FUNC, class -> CLASS,
\* async -> ASYNC, await -> AWAIT
JavaScriptRewrites ==
  {<<<<99, 111, 110, 115, 116>>, <<86, 65, 82>>>>,
   <<<<108, 101, 116>>, <<86, 65, 82>>>>,
   <<<<118, 97, 114>>, <<86, 65, 82>>>>,
   <<<<102, 117, 110, 99, 116, 105, 111, 110>>, <<70, 85, 78, 67>>>>,
   <<<<99, 108, 97, 115, 115>>, <<67, 76, 65, 83, 83>>>>,
   <<<<97, 115, 121, 110, 99>>, <<65, 83, 89, 78, 67>>>>,
   <<<<97, 119, 97, 105, 116>>, <<65, 87, 65, 73, 84>>>>}

\* normalizePython: def -> FUNC, class -> CLASS, async -> ASYNC,
\* await -> AWAIT, lambda -> LAMBDA
PythonRewrites ==
  {<<<<100, 101, 102>>, <<70, 85, 78, 67>>>>,
   <<<<99, 108, 97, 115, 115>>, <<67, 76, 65, 83, 83>>>>,
   <<<<97, 115, 121, 110, 99>>, <<65, 83, 89, 78, 67>>>>,
   <<<<97, 119, 97, 105, 116>>, <<65, 87, 65, 73, 84>>>>,
   <<<<108, 97, 109, 98, 100, 97>>, <<76, 65, 77, 66, 68, 65>>>>}

\* CodeTokenizer.normalize on a text of words and white space: white space runs
\* become one blank, the text is trimmed, and the whole words of the language's
\* table are rewritten
Normalize(code, language) ==
  LET rewrites == CASE language \in {"javascript", "typescript"} -> JavaScriptRewrites
                    [] language = "python" -> PythonRewrites
                    [] OTHER -> {}
      rewrite(w) == IF \E r \in rewrites : r[1] = w
                    THEN (CHOOSE r \in rewrites : r[1] = w)[2] ELSE w
      words == Fields(code, WhiteSpace)
  IN Join(Array([k \in 1..Len(words) |-> rewrite(words[k])]), 32)

\* the Map the extractors count in, as the sequence of its entries in insertion
\* order: every occurrence [key, id, language] does count++ on the entry of its
\* key and adds its id and its language to the entry's Sets
Tally(occurrences) ==
  LET keys == Distinct(Array([k \in 1..Len(occurrences) |-> occurrences[k].key]))
  IN Array([k \in 1..Len(keys) |->
       LET mine(o) == o.key = keys[k]
           hits == SelectSeq(occurrences, mine)
       IN [content |-> keys[k], count |-> Len(hits),
           snippets |-> Distinct(Array([h \in 1..Len(hits) |-> hits[h].id])),
           languages |-> Distinct(Array([h \in 1..Len(hits) |-> hits[h].language]))]])

\* CodeTokenizer.extractNGrams
ExtractNGrams(tokens, n) == GenerateShingles(tokens, n)

\* extractNGramPatterns of synthCommand
CmdNGramPatterns(snippets) ==
  LET occurrences ==
        Concat([s \in 1..Len(snippets) |->
          LET ngrams == ExtractNGrams(CodeTokenize(snippets[s].content), 3)
          IN Array([g \in 1..Len(ngrams) |->
               [key |-> ngrams[g], id |-> snippets[s].id, language |-> snippets[s].language]])])
      counts == Tally(occurrences)
  IN Array([k \in 1..Len(counts) |->
       [type |-> "ngram", content |-> counts[k].content, frequency |-> counts[k].count,
        snippets |-> counts[k].snippets,
        confidence |-> Ratio(Len(counts[k].snippets), Len(snippets))]])

\* row i of the dp table of findLCS from row i - 1: dp[i][0..n]
RECURSIVE LcsRow(_, _, _, _)
LcsRow(above, x, s2, row) ==
  IF Len(row) > Len(s2) THEN row
  ELSE LET j == Len(row)
       IN LcsRow(above, x, s2,
                 Append(row, IF x = s2[j] THEN above[j] + 1
                             ELSE IF above[j + 1] >= row[j] THEN above[j + 1] ELSE row[j]))

\* the dp table of findLCS: rows 0..m
RECURSIVE LcsTable(_, _, _)
LcsTable(s1, s2, dp) ==
  IF Len(dp) > Len(s1) THEN dp
  ELSE LcsTable(s1, s2, Append(dp, LcsRow(dp[Len(dp)], s1[Len(dp)], s2, <<0>>)))

\* the backtracking loop of findLCS
RECURSIVE LcsBack(_, _, _, _, _, _)
LcsBack(s1, s2, dp, i, j, lcs) ==
  IF Computed(lcs) /\ (i = 0 \/ j = 0) THEN lcs
  ELSE IF s1[i] = s2[j] THEN LcsBack(s1, s2, dp, i - 1, j - 1, <<s1[i]>> \o lcs)
  ELSE IF dp[i][j + 1] > dp[i + 1][j] THEN LcsBack(s1, s2, dp, i - 1, j, lcs)
  ELSE LcsBack(s1, s2, dp, i, j - 1, lcs)

\* findLCS that stops at the first position where the inputs differ: the
\* longest common prefix
FindLCS_CommonPrefix(s1, s2) ==
  LET agree(k) == \A i \in 1..k : s1[i] = s2[i]
      shorter == IF Len(s1) < Len(s2) THEN Len(s1) ELSE Len(s2)
  IN SubSeq(s1, 1, CHOOSE k \in 0..shorter :
                     agree(k) /\ \A other \in 0..shorter : agree(other) => other <= k)

\* findLCS (the same code on the characters of two strings in synthCommand and
\* on two token arrays in PatternExtractor)
FindLCS(s1, s2) ==
  LET dp == LcsTable(s1, s2, <<Array([j \in 1..(Len(s2) + 1) |-> 0])>>)
  IN LcsBack(s1, s2, dp, Len(s1), Len(s2), << >>)

\* the pairs (i, j), i < j, in the order of the two nested loops
OrderedPairs(n) ==
  Concat([i \in 1..n |-> Array([d \in 1..(n - i) |-> <<i, i + d>>])])

\* extractLCSPatterns of synthCommand: confidence 0.8
CmdLCSPatterns(snippets) ==
  LET pairs == OrderedPairs(Len(snippets))
      found == Array([p \in 1..Len(pairs) |->
                 [type |-> "lcs",
                  content |-> FindLCS(snippets[pairs[p][1]].normalized,
                                      snippets[pairs[p][2]].normalized),
                  frequency |-> 2,
                  snippets |-> <<snippets[pairs[p][1]].id, snippets[pairs[p][2]].id>>,
                  confidence |-> Ratio(8, 10)]])
      longEnough(pattern) == Len(pattern.content) > 10
  IN SelectSeq(found, longEnough)

StartsWith(s, prefix) == Len(s) >= Len(prefix) /\ SubSeq(s, 1, Len(prefix)) = prefix

Includes(s, part) ==
  \E k \in 0..(Len(s) - Len(part)) : SubSeq(s, k + 1, k + Len(part)) = part

\* the tag extractSimpleStructure pushes for one trimmed line (<< >>: none)
StructureOfLine(line) ==
  IF StartsWith(line, <<102, 117, 110, 99, 116, 105, 111, 110>>) \/ StartsWith(line, <<100, 101, 102>>)
    THEN <<<<70, 85, 78, 67, 84, 73, 79, 78>>>>
  ELSE IF StartsWith(line, <<99, 108, 97, 115, 115>>) THEN <<<<67, 76, 65, 83, 83>>>>
  ELSE IF StartsWith(line, <<105, 102>>) THEN <<<<73, 70>>>>
  ELSE IF StartsWith(line, <<102, 111, 114>>) \/ StartsWith(line, <<119, 104, 105, 108, 101>>)
    THEN <<<<76, 79, 79, 80>>>>
  ELSE IF Includes(line, <<114, 101, 116, 117, 114, 110>>) THEN <<<<82, 69, 84, 85, 82, 78>>>>
  ELSE IF line \in {<<123>>, <<125>>} THEN <<line>>
  ELSE << >>

ExtractSimpleStructure(code) ==
  LET lines == Split(code, 10)
  IN Join(Concat([k \in 1..Len(lines) |-> StructureOfLine(Trim(lines[k]))]), 32)

\* extractASTPatterns of synthCommand: one structure, one count++ per snippet
CmdASTPatterns(snippets) ==
  LET counts == Tally(Array([s \in 1..Len(snippets) |->
                  [key |-> ExtractSimpleStructure(snippets[s].content),
                   id |-> snippets[s].id, language |-> snippets[s].language]]))
  IN Array([k \in 1..Len(counts) |->
       [type |-> "ast", content |-> counts[k].content, frequency |-> counts[k].count,
        snippets |-> counts[k].snippets,
        confidence |-> Ratio(Len(counts[k].snippets), Len(snippets))]])

\* a > b for two tuples of integers of one length, first component first
RECURSIVE Greater(_, _)
Greater(a, b) ==
  IF a = << >> THEN FALSE
  ELSE IF Head(a) # Head(b) THEN Head(a) > Head(b)
  ELSE Greater(Tail(a), Tail(b))

\* Array.prototype.sort (stable) with a comparator that orders by descending
\* rank: an item goes behind the items of greater rank and behind the earlier
\* items of its own rank
SortDescending(items, rank(_)) ==
  LET place(k) == 1 + Cardinality({j \in 1..Len(items) :
                         \/ Greater(rank(items[j]), rank(items[k]))
                         \/ j < k /\ rank(items[j]) = rank(items[k])})
  IN Array([p \in 1..Len(items) |-> items[CHOOSE k \in 1..Len(items) : place(k) = p]])

-----------------------------------------------------------------------------
(* PatternExtractor (src/src/core/patterns.ts) and Tokenizer.detectLanguage *)
(* (src/src/core/tokenizer.ts) of the core build.                           *)

\* extensions[ext || ''] || 'text'
CoreDetectLanguage(ext) ==
  CASE ext = "js" -> "javascript"
    [] ext = "ts" -> "typescript"
    [] ext = "py" -> "python"
    [] ext \in {"java", "cpp", "c", "go", "php", "swift", "scala", "html", "css", "sql"} -> ext
    [] ext = "cc" -> "cpp"
    [] ext = "rs" -> "rust"
    [] ext = "rb" -> "ruby"
    [] ext = "kt" -> "kotlin"
    [] ext = "cs" -> "csharp"
    [] OTHER -> "text"

\* generateNGrams
GenerateNGrams(tokens, n) ==
  Array([i \in 1..(IF Len(tokens) >= n THEN Len(tokens) - n + 1 ELSE 0) |->
           SubSeq(tokens, i, i + n - 1)])

\* PatternExtractor.extractNGramPatterns, the generated ids aside
CoreNGramPatterns(snippets, config) ==
  LET occurrences ==
        Concat([s \in 1..Len(snippets) |->
          LET ngrams == GenerateNGrams(snippets[s].tokens, config.ngramSize)
          IN Array([g \in 1..Len(ngrams) |->
               [key |-> Join(ngrams[g], 32), id |-> snippets[s].id,
                language |-> snippets[s].language]])])
      counts == Tally(occurrences)
      repeated(entry) == entry.count >= 2
      kept == SelectSeq(counts, repeated)
  IN Array([k \in 1..Len(kept) |->
       [type |-> "ngram", content |-> kept[k].content, frequency |-> kept[k].count,
        snippets |-> kept[k].snippets, languages |-> kept[k].languages]])

\* PatternExtractor.extractLCSPatterns, the generated ids aside: a pair is
\* processed unless an earlier pair had the same pairKey
CoreLCSPatterns(snippets) ==
  LET pairs == OrderedPairs(Len(snippets))
      pairKey(p) == <<snippets[pairs[p][1]].id, snippets[pairs[p][2]].id>>
      found == Array([p \in 1..Len(pairs) |->
                 LET snippet1 == snippets[pairs[p][1]]
                     snippet2 == snippets[pairs[p][2]]
                     lcs == FindLCS(snippet1.tokens, snippet2.tokens)
                 IN [type |-> "lcs", content |-> Join(lcs, 32), frequency |-> 2,
                     snippets |-> <<snippet1.id, snippet2.id>>,
                     languages |-> <<snippet1.language, snippet2.language>>,
                     emitted |-> /\ \A q \in 1..(p - 1) : pairKey(q) # pairKey(p)
                                 /\ Len(lcs) >= 3]])
      emitted(pattern) == pattern.emitted
      kept == SelectSeq(found, emitted)
  IN Array([k \in 1..Len(kept) |->
       [type |-> "lcs", content |-> kept[k].content, frequency |-> 2,
        snippets |-> kept[k].snippets, languages |-> kept[k].languages]])

EndsWith(s, suffix) ==
  Len(s) >= Len(suffix) /\ SubSeq(s, Len(s) - Len(suffix) + 1, Len(s)) = suffix

\* the matches of /class\s+\w+(\s+extends\s+\w+)?/g in a text given as its words,
\* from word k on, each with its words replaced by ID
RECURSIVE ClassMatches(_, _)
ClassMatches(words, k) ==
  IF k >= Len(words) THEN << >>
  ELSE IF EndsWith(words[k], <<99, 108, 97, 115, 115>>)
    THEN IF k + 3 <= Len(words) /\ words[k + 2] = <<101, 120, 116, 101, 110, 100, 115>>
         THEN <<<<73, 68, 32, 73, 68, 32, 73, 68, 32, 73, 68>>>> \o ClassMatches(words, k + 4)
         ELSE <<<<73, 68, 32, 73, 68>>>> \o ClassMatches(words, k + 2)
  ELSE ClassMatches(words, k + 1)

\* extractClassPatterns on a text of words separated by single blanks
ExtractClassPatterns(content, language) ==
  IF language \in {"javascript", "typescript", "java", "csharp"}
  THEN ClassMatches(Fields(content, WhiteSpace), 1)
  ELSE << >>

\* extractStructuralPatterns: the function and control-flow expressions need a
\* parenthesis, which the texts of the corpus do not hold, so only the class
\* expression finds matches
ExtractStructuralPatterns(content, language) == ExtractClassPatterns(content, language)

\* PatternExtractor.extractASTPatterns, the generated ids aside
CoreASTPatterns(snippets) ==
  LET occurrences ==
        Concat([s \in 1..Len(snippets) |->
          LET structures == ExtractStructuralPatterns(snippets[s].content, snippets[s].language)
          IN Array([g \in 1..Len(structures) |->
               [key |-> structures[g], id |-> snippets[s].id,
                language |-> snippets[s].language]])])
      counts == Tally(occurrences)
      repeated(entry) == entry.count >= 2
      kept == SelectSeq(counts, repeated)
  IN Array([k \in 1..Len(kept) |->
       [type |-> "ast", content |-> kept[k].content, frequency |-> kept[k].count,
        snippets |-> kept[k].snippets, languages |-> kept[k].languages]])

\* rankPatterns: by frequency, then by number of languages, then by number of
\* snippets, all descending
RankPatterns(patterns) ==
  LET rank(p) == <<p.frequency, Len(p.languages), Len(p.snippets)>>
  IN SortDescending(patterns, rank)

\* extractPatterns; the ids generatePatternId hands out, in the order the
\* patterns are created, are nextPatternId, nextPatternId + 1, ...
ExtractPatterns(snippets, config, nextPatternId) ==
  LET created == CoreNGramPatterns(snippets, config) \o CoreLCSPatterns(snippets)
                   \o CoreASTPatterns(snippets)
  IN RankPatterns(Array([k \in 1..Len(created) |->
       [id |-> nextPatternId + k - 1, type |-> created[k].type,
        content |-> created[k].content, frequency |-> created[k].frequency,
        snippets |-> created[k].snippets, languages |-> created[k].languages]]))

\* the loop of deduplicate without the comparison of content hashes: only the
\* estimated similarity of the minHashes tells a duplicate
RECURSIVE DeduplicateLoop_SimilarityOnly(_, _, _, _, _)
DeduplicateLoop_SimilarityOnly(snippets, k, buckets, unique, config) ==
  IF Computed(<<buckets, unique>>) /\ k > Len(snippets) THEN unique
  ELSE LET snippet == snippets[k]
           added == AddSnippet(buckets, snippet, config)
           candidates == FindCandidates(added, snippet, config)
           isDuplicate ==
             \E n \in 1..Len(candidates) : \E u \in 1..Len(unique) :
               /\ unique[u].id = candidates[n]
               /\ AtLeast(LshSimilarity(snippet.minHashes, unique[u].minHashes),
                          config.similarityThreshold)
       IN DeduplicateLoop_SimilarityOnly(snippets, k + 1, added,
            IF isDuplicate THEN unique ELSE Append(unique, snippet), config)

\* the loop of CodeCollage.deduplicate: unique in insertion order
RECURSIVE DeduplicateLoop(_, _, _, _, _)
DeduplicateLoop(snippets, k, buckets, unique, config) ==
  IF Computed(<<buckets, unique>>) /\ k > Len(snippets) THEN unique
  ELSE LET snippet == snippets[k]
           processed == {snippets[j].id : j \in 1..(k - 1)}
           existingByHash == \E u \in 1..Len(unique) : unique[u].content = snippet.content
           added == AddSnippet(buckets, snippet, config)
           candidates == FindCandidates(added, snippet, config)
           isDuplicate ==
             \E n \in 1..Len(candidates) : \E u \in 1..Len(unique) :
               /\ unique[u].id = candidates[n]
               /\ AtLeast(LshSimilarity(snippet.minHashes, unique[u].minHashes),
                          config.similarityThreshold)
       IN IF snippet.id \in processed \/ existingByHash
          THEN DeduplicateLoop(snippets, k + 1, buckets, unique, config)
          ELSE DeduplicateLoop(snippets, k + 1, added,
                               IF isDuplicate THEN unique ELSE Append(unique, snippet), config)

\* CodeCollage.deduplicate: uniqueSnippets (the content stands for its sha256)
Deduplicate(snippets, config) == DeduplicateLoop(snippets, 1, << >>, << >>, config)

\* the loop of CodeCollage.index that sets snippet.clusterId = cluster.id
AssignClusters(uniqueSnippets, clusters) ==
  Array([k \in 1..Len(uniqueSnippets) |->
    LET holding == {c \in 1..Len(clusters) : uniqueSnippets[k].id \in Range(clusters[c].snippets)}
    IN IF holding = {} THEN uniqueSnippets[k]
       ELSE [uniqueSnippets[k] EXCEPT
               !.clusterId = clusters[CHOOSE c \in holding : \A d \in holding : d <= c].id]])

-----------------------------------------------------------------------------
(* SpecCluster: the two clusterSnippets functions applied to the snippet    *)
(* logs an ingest can leave behind.                                         *)

\* load data item size send
TextA ==
  <<108, 111, 97, 100, 32, 100, 97, 116, 97, 32, 105, 116, 101, 109, 32, 115,
    105, 122, 101, 32, 115, 101, 110, 100>>
\* data item size send next
TextB ==
  <<100, 97, 116, 97, 32, 105, 116, 101, 109, 32, 115, 105, 122, 101, 32, 115,
    101, 110, 100, 32, 110, 101, 120, 116>>
\* item size send next user
TextC ==
  <<105, 116, 101, 109, 32, 115, 105, 122, 101, 32, 115, 101, 110, 100, 32, 110,
    101, 120, 116, 32, 117, 115, 101, 114>>
\* initialization configuration   (two tokens: no shingle of three)
TextShort ==
  <<105, 110, 105, 116, 105, 97, 108, 105, 122, 97, 116, 105, 111, 110, 32, 99,
    111, 110, 102, 105, 103, 117, 114, 97, 116, 105, 111, 110>>

\* send next   (two tokens: no shingle of three)
TextTiny == <<115, 101, 110, 100, 32, 110, 101, 120, 116>>

\* class user class user class user
TextRepeat ==
  <<99, 108, 97, 115, 115, 32, 117, 115, 101, 114, 32, 99, 108, 97, 115, 115, 32, 117, 115, 101, 114, 32, 99, 108, 97, 115, 115, 32, 117, 115, 101, 114>>

ClusterCorpus == {TextA, TextB, TextC, TextShort, TextTiny}

\* the texts a file to ingest or a stored snippet holds
Corpus == ClusterCorpus \cup {TextRepeat}

\* a snippet as createSnippet of the commands build leaves it in the log (the
\* fields computed from the content, the path and the timestamp are left out)
CmdSnippet(id, content, language) ==
  [id |-> id, content |-> content, language |-> language,
   normalized |-> Normalize(content, language)]

\* this.tokenizer.tokenize(content, language) of ingestFile, for every text a
\* file can hold
CorpusTokens == [content \in Corpus |-> Tokenize(content)]

\* minHashLSH.computeMinHash(tokens) of ingestFile, for every text a file can
\* hold and every outcome of the draws of the constructor of its MinHashLSH
CorpusMinHashes ==
  [content \in Corpus, seed \in AllSeeds |->
     ComputeMinHash(CorpusTokens[content], CoreConfig, seed)]

\* a snippet as ingestFile of the core build leaves it: a new MinHashLSH,
\* whose constructor drew the functions of seed, computed its minHashes
CoreSnippet(id, content, language, seed) ==
  [id |-> id, content |-> content, language |-> language,
   tokens |-> CorpusTokens[content],
   minHashes |-> CorpusMinHashes[content, seed],
   clusterId |-> 0]

ClusterInputs(b) ==
  UNION {IF b = "commands"
         THEN {[k \in 1..n |-> CmdSnippet(k, c[k], "javascript")] : c \in [1..n -> ClusterCorpus]}
         ELSE {[k \in 1..n |-> CoreSnippet(k, c[k], "javascript", sd[k])] :
                 c \in [1..n -> ClusterCorpus], sd \in [1..n -> Seeds]}
         : n \in 0..MaxInput}

InitCluster ==
  /\ build \in {"commands", "core"}
  /\ snippetsLog \in ClusterInputs(build)
  /\ clustersLog = << >>
  /\ patternsLog = << >>
  /\ clustering = NoClustering
  /\ log = "data/snippets.jsonl"
  /\ file = << >>
  /\ written = << >>
  /\ torn = FALSE
  /\ ops = 0
  /\ scan = NoScan
  /\ IdleCli

\* new MinHashClusterer(config).clusterSnippets(snippets)
RunMinHashClusterer(config, seed) ==
  /\ build = "commands"
  /\ clustering' = [done |-> TRUE, by |-> "MinHashClusterer", config |-> config,
                    seed |-> seed, snippets |-> snippetsLog,
                    signatures |-> Array([k \in 1..Len(snippetsLog) |->
                      GenerateSignature(snippetsLog[k], config, seed).signature]),
                    clusters |-> ClusterSnippets(snippetsLog, config, seed)]
  /\ UNCHANGED <<storeVars, dataVars, cliVars>>

\* new Clusterer(config).clusterSnippets(snippets)
RunClusterer(config) ==
  /\ build = "core"
  /\ clustering' = [done |-> TRUE, by |-> "Clusterer", config |-> config,
                    seed |-> 0, snippets |-> snippetsLog,
                    signatures |-> Array([k \in 1..Len(snippetsLog) |->
                                            snippetsLog[k].minHashes]),
                    clusters |-> CoreClusterSnippets(snippetsLog, config, 1)]
  /\ UNCHANGED <<storeVars, dataVars, cliVars>>

\* the result of CodeCollage.deduplicate on the snippet log
Deduplicated(uniqueSnippets, config) ==
  [done |-> TRUE, by |-> "deduplicate", config |-> config, seed |-> 0,
   snippets |-> snippetsLog,
   signatures |-> Array([k \in 1..Len(snippetsLog) |-> snippetsLog[k].minHashes]),
   clusters |-> << >>, uniqueSnippets |-> uniqueSnippets,
   duplicatesRemoved |-> Len(snippetsLog) - Len(uniqueSnippets)]

\* this.deduplicate(allSnippets) of CodeCollage.index
RunDeduplicate(config) ==
  /\ build = "core"
  /\ clustering' = Deduplicated(Deduplicate(snippetsLog, config), config)
  /\ UNCHANGED <<storeVars, dataVars, cliVars>>

NextCluster ==
  \/ \E seed \in Seeds :
       \E config \in {IndexConfig, [IndexConfig EXCEPT !.minClusterSize = 1]} :
         RunMinHashClusterer(config, seed)
  \/ RunClusterer(CoreConfig)
  \/ RunDeduplicate(CoreConfig)

SpecCluster == InitCluster /\ [][NextCluster]_vars

-----------------------------------------------------------------------------
(* C6: every cluster MinHashClusterer.clusterSnippets emits has size equal  *)
(* to the number of ids in its snippet list, size >= minClusterSize, and a  *)
(* centroid that is one of the ids of its snippet list.                     *)
ClusterSizeAndCentroid ==
  (clustering.done /\ clustering.by = "MinHashClusterer") =>
    \A k \in 1..Len(clustering.clusters) :
      LET cluster == clustering.clusters[k]
      IN /\ cluster.size = Len(cluster.snippets)
         /\ cluster.size >= clustering.config.minClusterSize
         /\ cluster.centroid \in Range(cluster.snippets)

\* MinHashClusterer emitted a cluster of three snippets whose centroid is not
\* the first id of its list (the loop of findCentroid replaced the initial one)
ClusterSizeAndCentroidWitness ==
  /\ clustering.done /\ clustering.by = "MinHashClusterer"
  /\ \E k \in 1..Len(clustering.clusters) :
       /\ clustering.clusters[k].size = 3
       /\ clustering.clusters[k].centroid # clustering.clusters[k].snippets[1]

\* the signature the run used for clustering.snippets[k]: generateSignature
\* under the hash functions of the run (commands), the stored minHashes (core)
RunSignature(k) == clustering.signatures[k]

\* positions at which the signatures of snippets i and j of the run agree
RunMatches(i, j) ==
  Cardinality({h \in 1..(Bands * Rows) : RunSignature(i)[h] = RunSignature(j)[h]})

\* band b of the signature of snippet i of the run
RunBand(i, b) == SubSeq(RunSignature(i), (b - 1) * Rows + 1, b * Rows)

\* snippets i and j of the run are an LSH candidate pair: one bucket holds both
\* (MinHashClusterer keys a bucket by band index and band, MinHashLSH by band)
RunCandidates(i, j) ==
  IF clustering.by = "MinHashClusterer"
  THEN \E b \in 1..Bands : RunBand(i, b) = RunBand(j, b)
  ELSE \E b \in 1..Bands : \E c \in 1..Bands : RunBand(i, b) = RunBand(j, c)

\* estimated Jaccard >= 0.7, the threshold of both clusterers
RunAboveThreshold(i, j) == RunMatches(i, j) * 10 >= 7 * (Bands * Rows)

\* a verified edge of the similarity graph
RunEdge(i, j) == i # j /\ RunCandidates(i, j) /\ RunAboveThreshold(i, j)

\* the snippets of the run joined to those of S by a path of verified edges
RECURSIVE RunReachable(_)
RunReachable(S) ==
  LET more == S \cup {j \in 1..Len(clustering.snippets) : \E i \in S : RunEdge(i, j)}
  IN IF more = S THEN S ELSE RunReachable(more)

\* the position in the run's input of the snippet with the given id
RunIndex(id) == CHOOSE k \in 1..Len(clustering.snippets) : clustering.snippets[k].id = id

(* C7: any two snippets clusterSnippets puts in one cluster are joined by a *)
(* path of the similarity graph whose every edge is an LSH candidate pair   *)
(* with estimated Jaccard >= the threshold; two snippets that are the whole *)
(* corpus and lie below the threshold are never in one cluster.             *)
CoClusteredAreConnected ==
  clustering.done =>
    /\ \A k \in 1..Len(clustering.clusters) :
         \A a, b \in Range(clustering.clusters[k].snippets) :
           RunIndex(b) \in RunReachable({RunIndex(a)})
    /\ (Len(clustering.snippets) = 2 /\ ~RunAboveThreshold(1, 2)) =>
         \A k \in 1..Len(clustering.clusters) :
           ~({clustering.snippets[1].id, clustering.snippets[2].id}
               \subseteq Range(clustering.clusters[k].snippets))

\* MinHashClusterer put three snippets in one cluster although two of them are
\* a candidate pair below the threshold: only the path through the third
\* joins them
CoClusteredAreConnectedWitness ==
  /\ clustering.done /\ clustering.by = "MinHashClusterer"
  /\ Len(clustering.snippets) = 3
  /\ \E k \in 1..Len(clustering.clusters) : clustering.clusters[k].size = 3
  /\ RunCandidates(1, 3) /\ ~RunAboveThreshold(1, 3)

(* C17: the snippets CodeCollage.deduplicate keeps have pairwise different   *)
(* content hashes; of two snippets with identical content that are the      *)
(* whole input it keeps the first, and duplicatesRemoved is 1.              *)
DeduplicateKeepsOnePerHash ==
  (clustering.done /\ clustering.by = "deduplicate") =>
    LET kept == clustering.uniqueSnippets
        given == clustering.snippets
    IN /\ \A i, j \in 1..Len(kept) : kept[i].content = kept[j].content => i = j
       /\ (Len(given) = 2 /\ given[1].content = given[2].content) =>
            kept = <<given[1]>> /\ clustering.duplicatesRemoved = 1

\* deduplicate was given two snippets of identical content whose minHashes
\* come from different hash families and share no band, and removed one
DeduplicateKeepsOnePerHashWitness ==
  /\ clustering.done /\ clustering.by = "deduplicate"
  /\ Len(clustering.snippets) = 2
  /\ clustering.snippets[1].content = clustering.snippets[2].content
  /\ ~RunCandidates(1, 2)
  /\ clustering.duplicatesRemoved = 1

\* the clusters of the run that list the snippet at position k of its input
RunClustersOf(k) ==
  {c \in 1..Len(clustering.clusters) :
     clustering.snippets[k].id \in Range(clustering.clusters[c].snippets)}

(* C21: Clusterer.clusterSnippets puts two snippets joined by a verified    *)
(* edge (LSH candidates with estimated similarity >= clusterThreshold) in   *)
(* one cluster, and the clusters of more than one snippet are the connected *)
(* components of the graph of verified edges.                               *)
ClustersAreComponents ==
  (clustering.done /\ clustering.by = "Clusterer") =>
    /\ \A i, j \in 1..Len(clustering.snippets) :
         RunEdge(i, j) => RunClustersOf(i) \cap RunClustersOf(j) # {}
    /\ \A c \in 1..Len(clustering.clusters) :
         clustering.clusters[c].size > 1 =>
           \E i \in 1..Len(clustering.snippets) :
             Range(clustering.clusters[c].snippets) =
               {clustering.snippets[j].id : j \in RunReachable({i})}

\* the sum, over the other members of the list members, of the positions at
\* which their signatures agree with the signature of members[k]: the mean
\* estimated similarity of members[k] to the others, times a common divisor
RunTotal(members, k) ==
  SumSeq(Array([o \in 1..Len(members) |->
            IF o = k THEN 0 ELSE RunMatches(RunIndex(members[k]), RunIndex(members[o]))]))

(* C24: the centroid findCentroid gives a cluster is the member whose mean  *)
(* estimated similarity to the other members is maximal, and of the members *)
(* tied for the maximum the one that comes first in the member list.        *)
CentroidIsFirstMostSimilar ==
  (clustering.done /\ clustering.by = "MinHashClusterer") =>
    \A c \in 1..Len(clustering.clusters) :
      LET members == clustering.clusters[c].snippets
      IN \E k \in 1..Len(members) :
           /\ clustering.clusters[c].centroid = members[k]
           /\ \A o \in 1..Len(members) : RunTotal(members, o) <= RunTotal(members, k)
           /\ \A o \in 1..(k - 1) : RunTotal(members, o) < RunTotal(members, k)

\* a cluster of three members of which the last two are tied for the maximal
\* mean similarity and the first lies below it: the centroid is the second
CentroidIsFirstMostSimilarWitness ==
  /\ clustering.done /\ clustering.by = "MinHashClusterer"
  /\ \E c \in 1..Len(clustering.clusters) :
       LET members == clustering.clusters[c].snippets
       IN /\ Len(members) = 3
          /\ RunTotal(members, 2) = RunTotal(members, 3)
          /\ RunTotal(members, 1) < RunTotal(members, 2)
          /\ clustering.clusters[c].centroid = members[2]

\* the snippet at position k of the run has fewer than 3 tokens
RunShort(k) == Len(CodeTokenize(clustering.snippets[k].content)) < 3

(* C27: every snippet of fewer than 3 tokens gets the signature of          *)
(* bands x rows sentinel values, and any two such snippets agree on every   *)
(* position and are in one cluster of MinHashClusterer.clusterSnippets,     *)
(* whatever their contents.                                                 *)
ShortSnippetsShareCluster ==
  (clustering.done /\ clustering.by = "MinHashClusterer") =>
    \A i, j \in 1..Len(clustering.snippets) :
      (RunShort(i) /\ RunShort(j) /\ i # j) =>
        /\ RunSignature(i) = Array([h \in 1..(Bands * Rows) |-> Infinity])
        /\ RunMatches(i, j) = Bands * Rows
        /\ RunClustersOf(i) \cap RunClustersOf(j) # {}

\* two snippets of two tokens with different contents are in one cluster and
\* a third snippet of five tokens is in none
ShortSnippetsShareClusterWitness ==
  /\ clustering.done /\ clustering.by = "MinHashClusterer"
  /\ Len(clustering.snippets) = 3
  /\ RunShort(1) /\ RunShort(3) /\ ~RunShort(2)
  /\ clustering.snippets[1].content # clustering.snippets[3].content
  /\ RunClustersOf(1) \cap RunClustersOf(3) # {}
  /\ RunClustersOf(2) = {}

(* C28: in the output of one clusterSnippets call no snippet id is listed   *)
(* twice in a cluster or in two clusters; MinHashClusterer lists every      *)
(* input snippet in at most one cluster and Clusterer in exactly one.       *)
ClustersAreDisjoint ==
  (clustering.done /\ clustering.by \in {"MinHashClusterer", "Clusterer"}) =>
    /\ \A c \in 1..Len(clustering.clusters) :
         LET members == clustering.clusters[c].snippets
         IN \A a, b \in 1..Len(members) : members[a] = members[b] => a = b
    /\ \A k \in 1..Len(clustering.snippets) :
         IF clustering.by = "Clusterer" THEN Cardinality(RunClustersOf(k)) = 1
         ELSE Cardinality(RunClustersOf(k)) <= 1

\* Clusterer grouped the first two of three snippets and emitted a singleton
\* for the third, which is a verified neighbour of the second
ClustersAreDisjointWitness ==
  /\ clustering.done /\ clustering.by = "Clusterer"
  /\ Len(clustering.snippets) = 3
  /\ Len(clustering.clusters) = 2
  /\ clustering.clusters[1].size = 2 /\ clustering.clusters[2].size = 1
  /\ RunEdge(2, 3)

-----------------------------------------------------------------------------
(* SpecLsh: the candidate search of the two LSH indexes on snippet logs     *)
(* whose signatures can repeat a band at another band index.                *)

\* the snippet logs the candidate search is run on
LshInputs(b) ==
  UNION {IF b = "commands"
         THEN {[k \in 1..n |-> CmdSnippet(k, c[k], "javascript")] : c \in [1..n -> ClusterCorpus]}
         ELSE {[k \in 1..n |-> CoreSnippet(k, c[k], "javascript", sd[k])] :
                 c \in [1..n -> ClusterCorpus], sd \in [1..n -> AllSeeds]}
         : n \in 0..MaxInput}

InitLsh ==
  /\ build \in {"commands", "core"}
  /\ snippetsLog \in LshInputs(build)
  /\ clustersLog = << >>
  /\ patternsLog = << >>
  /\ clustering = NoClustering
  /\ log = "data/snippets.jsonl"
  /\ file = << >>
  /\ written = << >>
  /\ torn = FALSE
  /\ ops = 0
  /\ scan = NoScan
  /\ IdleCli

\* the result of a candidate search: candidates[k] holds the ids found for the
\* snippet at position k of the log
Searched(by, seed, signatures, candidates) ==
  [done |-> TRUE, by |-> by, seed |-> seed, snippets |-> snippetsLog,
   signatures |-> signatures, clusters |-> << >>, candidates |-> candidates]

\* findCandidatePairs of a MinHashClusterer on the signatures it generates
RunFindCandidatePairs(config, seed) ==
  /\ build = "commands"
  /\ LET signatures == Array([k \in 1..Len(snippetsLog) |->
                                GenerateSignature(snippetsLog[k], config, seed)])
         pairs == Range(FindCandidatePairs(signatures))
     IN clustering' =
          Searched("MinHashClusterer", seed,
                   Array([k \in 1..Len(signatures) |-> signatures[k].signature]),
                   [k \in 1..Len(snippetsLog) |->
                      {id \in {snippetsLog[j].id : j \in 1..Len(snippetsLog)} :
                         id # snippetsLog[k].id /\ SortPair(id, snippetsLog[k].id) \in pairs}])
  /\ UNCHANGED <<storeVars, dataVars, cliVars>>

\* addSnippet of a MinHashLSH for every snippet, then findCandidates for each
RunFindCandidates(config) ==
  /\ build = "core"
  /\ LET buckets == AddAll(<< >>, snippetsLog, 1, config)
     IN clustering' =
          Searched("MinHashLSH", 0,
                   Array([k \in 1..Len(snippetsLog) |-> snippetsLog[k].minHashes]),
                   [k \in 1..Len(snippetsLog) |->
                      Range(FindCandidates(buckets, snippetsLog[k], config))])
  /\ UNCHANGED <<storeVars, dataVars, cliVars>>

NextLsh ==
  \/ \E seed \in AllSeeds : RunFindCandidatePairs(IndexConfig, seed)
  \/ RunFindCandidates(CoreConfig)

SpecLsh == InitLsh /\ [][NextLsh]_vars

\* C23: two snippets are LSH candidates of each other exactly when their
\* signatures agree on every row of one band at the same band index; a band
\* that equals a band of the other signature at another index does not make
\* them candidates.
CandidatesShareBandAtIndex ==
  clustering.done =>
    \A i, j \in 1..Len(clustering.snippets) :
      i # j =>
        (clustering.snippets[j].id \in clustering.candidates[i]
           <=> \E b \in 1..Bands : RunBand(i, b) = RunBand(j, b))

-----------------------------------------------------------------------------
(* SpecLcs: PatternExtractor.findLCS applied to two token sequences.        *)

\* the tokens a, b and c
LcsTokens == {<<97>>, <<98>>, <<99>>}

\* the token sequences handed to findLCS: every sequence of at most MaxTokens
\* tokens, and the sequences [a, b, c, d, e] and [z, a, c, x, e]
LcsInputs ==
  UNION {[1..n -> LcsTokens] : n \in 0..MaxTokens}
    \cup {<<<<97>>, <<98>>, <<99>>, <<100>>, <<101>>>>,
          <<<<122>>, <<97>>, <<99>>, <<120>>, <<101>>>>}

InitLcs ==
  /\ build = "core"
  /\ clustering \in [done : {FALSE}, by : {"findLCS"},
                     tokens1 : LcsInputs, tokens2 : LcsInputs]
  /\ snippetsLog = << >>
  /\ clustersLog = << >>
  /\ patternsLog = << >>
  /\ log = "data/snippets.jsonl"
  /\ file = << >>
  /\ written = << >>
  /\ torn = FALSE
  /\ ops = 0
  /\ scan = NoScan
  /\ IdleCli

\* this.findLCS(snippet1.tokens, snippet2.tokens)
RunFindLCS ==
  /\ ~clustering.done
  /\ clustering' = [done |-> TRUE, by |-> "findLCS",
                    tokens1 |-> clustering.tokens1, tokens2 |-> clustering.tokens2,
                    lcs |-> FindLCS(clustering.tokens1, clustering.tokens2)]
  /\ UNCHANGED <<storeVars, dataVars, cliVars>>

SpecLcs == InitLcs /\ [][RunFindLCS]_vars

\* the elements of s at the positions of S, in the order of s
Pick(s, S) ==
  Array([i \in 1..Cardinality(S) |->
           s[CHOOSE x \in S : Cardinality({y \in S : y <= x}) = i]])

\* the subsequences of s
Subsequences(s) == {Pick(s, S) : S \in SUBSET (1..Len(s))}

\* C26: the sequence findLCS returns for two token sequences is a subsequence
\* of both, and no common subsequence of the two is longer; for
\* [a, b, c, d, e] and [z, a, c, x, e] it is [a, c, e].
FindLCSIsLongestCommon ==
  clustering.done =>
    LET common == Subsequences(clustering.tokens1) \cap Subsequences(clustering.tokens2)
    IN /\ clustering.lcs \in common
       /\ \A c \in common : Len(c) <= Len(clustering.lcs)
       /\ (/\ clustering.tokens1 = <<<<97>>, <<98>>, <<99>>, <<100>>, <<101>>>>
           /\ clustering.tokens2 = <<<<122>>, <<97>>, <<99>>, <<120>>, <<101>>>>)
            => clustering.lcs = <<<<97>>, <<99>>, <<101>>>>

\* findLCS was applied to [a, b, c, d, e] and [z, a, c, x, e] and returned
\* three tokens
FindLCSIsLongestCommonWitness ==
  /\ clustering.done
  /\ clustering.tokens1 = <<<<97>>, <<98>>, <<99>>, <<100>>, <<101>>>>
  /\ clustering.tokens2 = <<<<122>>, <<97>>, <<99>>, <<120>>, <<101>>>>
  /\ Len(clustering.lcs) = 3

-----------------------------------------------------------------------------
(* Spec: the CLI of the commands build (src/src/cli.ts: ingestCommand,      *)
(* indexCommand, synthCommand, serveCommand) and of the core build          *)
(* (src/unnamed/part_008 on CodeCollage), run one invocation after the      *)
(* other on one data directory.  A log is the sequence of its records; a    *)
(* file to ingest is [ext, content, fault]: its extension, its text and     *)
(* what goes wrong when it is read (none in Spec).                          *)

SourceFiles ==
  {[ext |-> "js", content |-> TextRepeat, fault |-> "none"],
   [ext |-> "md", content |-> TextShort, fault |-> "none"]}

\* the files of SpecIngest: a path can be missing or its file unreadable
IngestFiles ==
  {[ext |-> "js", content |-> TextRepeat, fault |-> "none"],
   [ext |-> "js", content |-> TextRepeat, fault |-> "unreadable"],
   [ext |-> "js", content |-> TextRepeat, fault |-> "missing"],
   [ext |-> "md", content |-> TextShort, fault |-> "none"]}

\* a file of SpecExtract has at most this many lines
MaxLines == 3

\* the lines of the files of SpecExtract:
\* "function load(a, b) {", "  return a + b;", "}", "def load(a, b):", "",
\* "  }"
SourceLines ==
  {<<102, 117, 110, 99, 116, 105, 111, 110, 32, 108, 111, 97, 100, 40, 97, 44, 32, 98, 41,
     32, 123>>,
   <<32, 32, 114, 101, 116, 117, 114, 110, 32, 97, 32, 43, 32, 98, 59>>,
   <<125>>,
   <<100, 101, 102, 32, 108, 111, 97, 100, 40, 97, 44, 32, 98, 41, 58>>,
   << >>,
   <<32, 32, 125>>}

\* the files of SpecExtract: up to MaxLines lines, read as JavaScript, as
\* Python or as a file of no known language
ExtractFiles ==
  {[ext |-> e, content |-> Join(ls, 10), fault |-> "none"] :
     e \in {"js", "py", "md"}, ls \in UNION {[1..n -> SourceLines] : n \in 1..MaxLines}}

\* the files an ingest can meet
Files == SourceFiles \cup IngestFiles \cup ExtractFiles

\* the non-empty lists of at most MaxBatch files an ingest is pointed at
Batches == UNION {[1..n -> SourceFiles] : n \in 1..MaxBatch}

\* the record of an invocation that starts in the current state
Ran(command, options, exitCode, output) ==
  [command |-> command, options |-> options, exitCode |-> exitCode, output |-> output,
   previous |-> [command |-> lastRun.command, options |-> lastRun.options],
   before |-> [snippets |-> snippetsLog, clusters |-> clustersLog,
               patterns |-> patternsLog, metadata |-> metadata]]

\* saveMetadata(key, value) on the sidecars meta
SaveMetadata(meta, key, value) ==
  [meta EXCEPT ![key] = [writes |-> @.writes + 1, value |-> value]]

\* the default of options.extensions, without the dots
DefaultExtensions == {"js", "ts", "py", "java", "cpp", "c", "go", "rs", "rb", "php"}

\* \w of the regular expressions of isFunctionStart
RegexWord == (48..57) \cup (65..90) \cup (97..122) \cup {95}

\* a regular expression is matched from left to right on positions of the line
\* s: a set of positions holds every place the match can go on from.
\* AfterLiteral: one of the literals of words was read
AfterLiteral(s, from, words) ==
  {q \in 1..(Len(s) + 1) : \E p \in from : \E w \in words :
     q = p + Len(w) /\ SubSeq(s, p, q - 1) = w}

\* AfterRun: at least least characters of chars were read (\s*, \s+, \w+)
AfterRun(s, from, chars, least) ==
  {q \in 1..(Len(s) + 1) : \E p \in from :
     q >= p + least /\ \A m \in p..(q - 1) : s[m] \in chars}

\* (word\s+)? for one of the literals of words
OptionalWord(s, from, words) ==
  from \cup AfterRun(s, AfterLiteral(s, from, words), WhiteSpace, 1)

\* word\s+\w+ for one of the literals of words
Declaration(s, from, words) ==
  AfterRun(s, AfterRun(s, AfterLiteral(s, from, words), WhiteSpace, 1), RegexWord, 1)

\* the words of the regular expressions of isFunctionStart: export, async,
\* function, class, def, static; const let var; public private protected;
\* class interface enum; function def class proc sub
Words ==
  [export |-> <<101, 120, 112, 111, 114, 116>>,
   async |-> <<97, 115, 121, 110, 99>>,
   function |-> <<102, 117, 110, 99, 116, 105, 111, 110>>,
   class |-> <<99, 108, 97, 115, 115>>,
   def |-> <<100, 101, 102>>,
   static |-> <<115, 116, 97, 116, 105, 99>>,
   binders |-> {<<99, 111, 110, 115, 116>>, <<108, 101, 116>>, <<118, 97, 114>>},
   modifiers |-> {<<112, 117, 98, 108, 105, 99>>, <<112, 114, 105, 118, 97, 116, 101>>,
                  <<112, 114, 111, 116, 101, 99, 116, 101, 100>>},
   types |-> {<<99, 108, 97, 115, 115>>, <<105, 110, 116, 101, 114, 102, 97, 99, 101>>,
              <<101, 110, 117, 109>>},
   starts |-> {<<102, 117, 110, 99, 116, 105, 111, 110>>, <<100, 101, 102>>,
               <<99, 108, 97, 115, 115>>, <<112, 114, 111, 99>>, <<115, 117, 98>>}]

\* isFunctionStart: the regular expression of the language tested on the line
IsFunctionStart(line, language) ==
  CASE language \in {"javascript", "typescript"} ->
         LET exported == OptionalWord(line, {1}, {Words.export})
             named == AfterRun(line, AfterRun(line, AfterLiteral(line, exported, Words.binders),
                                              WhiteSpace, 1), RegexWord, 1)
             assigned == AfterRun(line, AfterLiteral(line, AfterRun(line, named, WhiteSpace, 0),
                                                     {<<61>>}), WhiteSpace, 0)
             indented == AfterRun(line, {1}, WhiteSpace, 0)
             modified == AfterRun(line, indented \cup AfterLiteral(line, indented, Words.modifiers),
                                  WhiteSpace, 0)
             called == AfterRun(line, AfterRun(line, OptionalWord(line, modified, {Words.async}),
                                               RegexWord, 1), WhiteSpace, 0)
         IN \/ Declaration(line, OptionalWord(line, exported, {Words.async}), {Words.function}) # {}
            \/ AfterLiteral(line, OptionalWord(line, assigned, {Words.async}), {<<40>>}) # {}
            \/ Declaration(line, {1}, {Words.class}) # {}
            \/ AfterLiteral(line, called, {<<40>>}) # {}
    [] language = "python" -> Declaration(line, {1}, {Words.def, Words.class}) # {}
    [] language \in {"java", "csharp"} ->
         LET modified == AfterRun(line, {1} \cup AfterLiteral(line, {1}, Words.modifiers), WhiteSpace, 0)
             static == OptionalWord(line, modified, {Words.static})
             typed == AfterRun(line, AfterRun(line, static, RegexWord, 1), WhiteSpace, 1)
             called == AfterRun(line, AfterRun(line, typed, RegexWord, 1), WhiteSpace, 0)
         IN \/ Declaration(line, static, Words.types) # {}
            \/ AfterLiteral(line, called, {<<40>>}) # {}
    [] OTHER -> \E w \in Words.starts : Includes(line, w)

\* getIndentLevel: the length of the leading white space
GetIndentLevel(line) == Len(line) - Len(TrimLeft(line))

\* isFunctionEnd
IsFunctionEnd(line, language, content) ==
  LET indentLevel == GetIndentLevel(content[1])
      currentIndent == GetIndentLevel(line)
  IN IF language = "python"
     THEN Trim(line) # << >> /\ currentIndent <= indentLevel /\ Len(content) > 3
     ELSE Trim(line) = <<125>> /\ currentIndent <= indentLevel

\* currentSnippet = null
NoSnippet == [start |-> 0, content |-> << >>]

\* createSnippet with lineEnd the line after the last line of the snippet
CreateSnippet_EndAfter(snippet, language, endLine, id) ==
  [id |-> id, content |-> Join(snippet.content, 10), language |-> language,
   normalized |-> Normalize(Join(snippet.content, 10), language),
   lineStart |-> snippet.start, lineEnd |-> endLine + 1]

\* createSnippet; id stands for generateId() (the fields computed from the
\* path and the timestamp, the hash and the tokens are left out)
CreateSnippet(snippet, language, endLine, id) ==
  LET content == Join(snippet.content, 10)
  IN [id |-> id, content |-> content, language |-> language,
      normalized |-> Normalize(content, language),
      lineStart |-> snippet.start, lineEnd |-> endLine]

\* the loop of extractSnippets over lines from line i on (i counts from 1, the
\* loop of the source from 0); the snippets get the ids id, id + 1, ... in the
\* order they are created
RECURSIVE ExtractLoop(_, _, _, _, _, _)
ExtractLoop(lines, i, language, currentSnippet, snippets, id) ==
  IF i > Len(lines) THEN [currentSnippet |-> currentSnippet, snippets |-> snippets]
  ELSE LET line == lines[i]
           trimmed == Trim(line)
           grown == [currentSnippet EXCEPT !.content = Append(@, line)]
       IN IF IsFunctionStart(trimmed, language)
          THEN ExtractLoop(lines, i + 1, language, [start |-> i, content |-> <<line>>],
                 IF currentSnippet # NoSnippet
                 THEN Append(snippets,
                        CreateSnippet(currentSnippet, language, i - 1, id + Len(snippets)))
                 ELSE snippets, id)
          ELSE IF currentSnippet = NoSnippet
          THEN ExtractLoop(lines, i + 1, language, NoSnippet, snippets, id)
          ELSE IF IsFunctionEnd(trimmed, language, grown.content)
          THEN ExtractLoop(lines, i + 1, language, NoSnippet,
                 Append(snippets, CreateSnippet(grown, language, i, id + Len(snippets))), id)
          ELSE ExtractLoop(lines, i + 1, language, grown, snippets, id)

\* the end of extractSnippets before its filter: the snippet still open at the
\* end of the file is closed, and when there is no snippet the whole file is
\* one if it has at most 50 lines
CloseSnippets(loop, content, language, lines, id) ==
  IF loop.currentSnippet # NoSnippet
  THEN Append(loop.snippets,
         CreateSnippet(loop.currentSnippet, language, Len(lines), id + Len(loop.snippets)))
  ELSE IF loop.snippets = << >> /\ Len(lines) <= 50
  THEN <<[id |-> id, content |-> content, language |-> language,
          normalized |-> Normalize(content, language),
          lineStart |-> 1, lineEnd |-> Len(lines)]>>
  ELSE loop.snippets

\* extractSnippets before its filter
CreateSnippets(sourceFile, id) ==
  LET language == CodeDetectLanguage(sourceFile.ext)
      lines == Split(sourceFile.content, 10)
  IN CloseSnippets(ExtractLoop(lines, 1, language, NoSnippet, << >>, id),
                   sourceFile.content, language, lines, id)

\* extractSnippets: the snippets whose trimmed content is longer than 20
ExtractSnippets(sourceFile, id) ==
  LET large(sn) == Len(Trim(sn.content)) > 20
  IN SelectSeq(CreateSnippets(sourceFile, id), large)

\* extractSnippets(file) for every file an ingest can meet, with the ids
\* counted from 0, and the number of ids generateId gave out on the way
Extracted ==
  [f \in Files |-> [snippets |-> ExtractSnippets(f, 0), created |-> Len(CreateSnippets(f, 0))]]

\* the snippets with their ids counted from id
Renumber(snippets, id) ==
  Array([k \in 1..Len(snippets) |-> [snippets[k] EXCEPT !.id = @ + id]])

\* the loop over the snippets of one file: appendSnippet throws at call failAt
\* of the invocation (0: at none), which ends the work on the file
AppendSnippets(snippets, failAt, calls) ==
  IF failAt \in (calls + 1)..(calls + Len(snippets))
  THEN [stored |-> SubSeq(snippets, 1, failAt - calls - 1), calls |-> failAt, warnings |-> 1]
  ELSE [stored |-> snippets, calls |-> calls + Len(snippets), warnings |-> 0]

\* the loop of ingestCommand over files from file k on.  When readFile of
\* extractSnippets or appendSnippet throws, the catch around the file warns
\* and the loop goes on with the next file
RECURSIVE IngestLoop(_, _, _, _, _, _, _)
RECURSIVE IngestFound(_, _, _, _, _, _, _, _)
IngestLoop(files, k, failAt, stored, calls, warnings, id) ==
  IF k > Len(files) THEN [stored |-> stored, calls |-> calls, warnings |-> warnings, id |-> id]
  ELSE IF files[k].fault # "none"
  THEN IngestLoop(files, k + 1, failAt, stored, calls, warnings + 1, id)
  ELSE IngestFound(files, k, failAt, stored, warnings, id, Extracted[files[k]].created,
                   AppendSnippets(Renumber(Extracted[files[k]].snippets, id), failAt, calls))

\* the rest of the loop after file k, whose snippets were appended
IngestFound(files, k, failAt, stored, warnings, id, created, appended) ==
  IngestLoop(files, k + 1, failAt, stored \o appended.stored, appended.calls,
             warnings + appended.warnings, id + created)

\* ingestCommand with --extensions extensions on a directory whose walk meets
\* the files of batch
IngestCommand(batch, extensions, failAt) ==
  /\ build = "commands"
  /\ runs < MaxRuns
  /\ LET codeFile(f) == f.ext \in extensions
         files == SelectSeq(batch, codeFile)
         loop == IngestLoop(files, 1, failAt, << >>, 0, 0, nextId)
     IN /\ Len(snippetsLog) + Len(loop.stored) <= MaxSnippets
        /\ snippetsLog' = snippetsLog \o loop.stored
        /\ nextId' = loop.id
        /\ lastRun' = Ran("ingest", [paths |-> batch, extensions |-> extensions], 0, loop.stored)
                      @@ [snippetCount |-> Len(loop.stored), warnings |-> loop.warnings,
                          failAt |-> failAt, appendFailed |-> failAt \in 1..loop.calls]
  /\ runs' = runs + 1
  /\ UNCHANGED <<storeVars, build, clustersLog, patternsLog, clustering, metadata,
                 serving, response, indexing>>

\* indexCommand; seed stands for the hash functions the new MinHashClusterer drew
IndexCommand(seed) ==
  /\ build = "commands"
  /\ runs < MaxRuns
  /\ IF Len(snippetsLog) = 0
     THEN /\ lastRun' = Ran("index", "", 1, << >>)
          /\ UNCHANGED clustersLog
     ELSE LET clusters == ClusterSnippets(snippetsLog, IndexConfig, seed)
          IN /\ clustersLog' = clustersLog \o clusters
             /\ lastRun' = Ran("index", "", 0, clusters)
  /\ runs' = runs + 1
  /\ UNCHANGED <<storeVars, build, snippetsLog, patternsLog, clustering, metadata,
                 nextId, serving, response, indexing>>

\* minFrequency: 3 of synthCommand
MinFrequency == 3

\* maxResults: 100 of synthCommand
MaxResults == 100

\* the patterns synthCommand extracts for one cluster
ClusterPatterns(type, cluster, snippets) ==
  LET known(id) == \E k \in 1..Len(snippets) : snippets[k].id = id
      ids == SelectSeq(cluster.snippets, known)
      clusterSnippets ==
        Array([n \in 1..Len(ids) |->
          snippets[CHOOSE k \in 1..Len(snippets) :
                     /\ snippets[k].id = ids[n]
                     /\ \A j \in 1..Len(snippets) : snippets[j].id = ids[n] => j <= k]])
  IN CASE type = "ngrams" -> CmdNGramPatterns(clusterSnippets)
       [] type = "lcs" -> CmdLCSPatterns(clusterSnippets)
       [] type = "ast" -> CmdASTPatterns(clusterSnippets)

\* filter by minFrequency, sort by descending frequency, slice to maxResults
FilterAndRank(patterns) ==
  LET frequent(p) == p.frequency >= MinFrequency
      rank(p) == <<p.frequency>>
      ranked == SortDescending(SelectSeq(patterns, frequent), rank)
  IN SubSeq(ranked, 1, IF Len(ranked) < MaxResults THEN Len(ranked) ELSE MaxResults)

\* synthCommand with --type type
SynthCommand(type) ==
  /\ build = "commands"
  /\ runs < MaxRuns
  /\ IF Len(clustersLog) = 0
     THEN /\ lastRun' = Ran("synth", type, 1, << >>)
          /\ UNCHANGED patternsLog
     ELSE LET patterns == Concat([c \in 1..Len(clustersLog) |->
                                    ClusterPatterns(type, clustersLog[c], snippetsLog)])
              filteredPatterns == FilterAndRank(patterns)
          IN /\ patternsLog' = patternsLog \o filteredPatterns
             /\ lastRun' = Ran("synth", type, 0, filteredPatterns)
  /\ runs' = runs + 1
  /\ UNCHANGED <<storeVars, build, snippetsLog, clustersLog, clustering, metadata,
                 nextId, serving, response, indexing>>

\* CodeCollage.ingestFile; seed stands for the hash functions the new
\* MinHashLSH of this file drew; << >> is null: the language is text, or
\* readFile threw and the catch warned (content.length > 100000 does not occur)
IngestFile(sourceFile, id, seed) ==
  LET language == CoreDetectLanguage(sourceFile.ext)
  IN IF sourceFile.fault # "none" \/ language = "text" THEN << >>
     ELSE <<CoreSnippet(id, sourceFile.content, language, seed)>>

\* cc ingest <paths...> of the core build on the files of batch:
\* cc.initialize(), then CodeCollage.ingest.  fs.stat throws on a path that
\* does not exist: ingest rejects before its saveSnippets, and the catch of
\* the command exits with 1
CoreIngest(batch, seeds) ==
  /\ build = "core"
  /\ runs < MaxRuns
  /\ LET found == \A k \in 1..Len(batch) : batch[k].fault # "missing"
         results == [k \in 1..Len(batch) |-> IngestFile(batch[k], nextId + k - 1, seeds[k])]
         snippets == IF found THEN Concat(results) ELSE << >>
     IN /\ Len(snippetsLog) + Len(snippets) <= MaxSnippets
        /\ snippetsLog' = snippetsLog \o snippets
        /\ lastRun' = Ran("ingest", [paths |-> batch], IF found THEN 0 ELSE 1, snippets)
                      @@ [processed |-> Len(snippets),
                          skipped |-> IF found THEN Len(batch) - Len(snippets) ELSE 0]
  /\ nextId' = nextId + Len(batch)
  /\ metadata' = SaveMetadata(metadata, "config", "DEFAULT_CONFIG")
  /\ runs' = runs + 1
  /\ UNCHANGED <<storeVars, build, clustersLog, patternsLog, clustering, serving, response, indexing>>

\* CodeCollage.index that clusters the snippets it loaded instead of the
\* snippets deduplicate kept
CoreIndex_ClustersLoaded ==
  /\ build = "core"
  /\ runs < MaxRuns
  /\ LET allSnippets == snippetsLog
         uniqueSnippets == Deduplicate(allSnippets, CoreConfig)
         duplicatesRemoved == Len(allSnippets) - Len(uniqueSnippets)
         clusters == CoreClusterSnippets(allSnippets, CoreConfig, nextId)
         assigned == AssignClusters(uniqueSnippets, clusters)
     IN /\ IF duplicatesRemoved > 0
           THEN /\ snippetsLog' = assigned
                /\ clustersLog' = clusters
                /\ patternsLog' = << >>
           ELSE /\ clustersLog' = clustersLog \o clusters
                /\ UNCHANGED <<snippetsLog, patternsLog>>
        /\ metadata' = SaveMetadata(SaveMetadata(metadata, "config", "DEFAULT_CONFIG"),
                         "indexStats",
                         [totalSnippets |-> Len(allSnippets),
                          uniqueSnippets |-> Len(uniqueSnippets),
                          duplicatesRemoved |-> duplicatesRemoved,
                          totalClusters |-> Len(clusters)])
        /\ nextId' = nextId + Len(clusters)
        /\ lastRun' = Ran("index", "", 0, clusters)
  /\ runs' = runs + 1
  /\ UNCHANGED <<storeVars, build, clustering, serving, response, indexing>>

\* CodeCollage.index with a clearAll that leaves patterns.jsonl in place
CoreIndex_KeepsPatterns ==
  /\ build = "core"
  /\ runs < MaxRuns
  /\ LET allSnippets == snippetsLog
         uniqueSnippets == Deduplicate(allSnippets, CoreConfig)
         duplicatesRemoved == Len(allSnippets) - Len(uniqueSnippets)
         clusters == CoreClusterSnippets(uniqueSnippets, CoreConfig, nextId)
         assigned == AssignClusters(uniqueSnippets, clusters)
     IN /\ IF duplicatesRemoved > 0
           THEN /\ snippetsLog' = assigned
                /\ clustersLog' = clusters
                /\ patternsLog' = patternsLog
           ELSE /\ clustersLog' = clustersLog \o clusters
                /\ UNCHANGED <<snippetsLog, patternsLog>>
        /\ metadata' = SaveMetadata(SaveMetadata(metadata, "config", "DEFAULT_CONFIG"),
                         "indexStats",
                         [totalSnippets |-> Len(allSnippets),
                          uniqueSnippets |-> Len(uniqueSnippets),
                          duplicatesRemoved |-> duplicatesRemoved,
                          totalClusters |-> Len(clusters)])
        /\ nextId' = nextId + Len(clusters)
        /\ lastRun' = Ran("index", "", 0, clusters)
  /\ runs' = runs + 1
  /\ UNCHANGED <<storeVars, build, clustering, serving, response, indexing>>

\* cc index of the core build: cc.initialize(), then CodeCollage.index
CoreIndex ==
  /\ build = "core"
  /\ runs < MaxRuns
  /\ LET allSnippets == snippetsLog
         uniqueSnippets == Deduplicate(allSnippets, CoreConfig)
         duplicatesRemoved == Len(allSnippets) - Len(uniqueSnippets)
         clusters == CoreClusterSnippets(uniqueSnippets, CoreConfig, nextId)
         assigned == AssignClusters(uniqueSnippets, clusters)
     IN /\ IF duplicatesRemoved > 0
           THEN /\ snippetsLog' = assigned
                /\ clustersLog' = clusters
                /\ patternsLog' = << >>
           ELSE /\ clustersLog' = clustersLog \o clusters
                /\ UNCHANGED <<snippetsLog, patternsLog>>
        /\ metadata' = SaveMetadata(SaveMetadata(metadata, "config", "DEFAULT_CONFIG"),
                         "indexStats",
                         [totalSnippets |-> Len(allSnippets),
                          uniqueSnippets |-> Len(uniqueSnippets),
                          duplicatesRemoved |-> duplicatesRemoved,
                          totalClusters |-> Len(clusters)])
        /\ nextId' = nextId + Len(clusters)
        /\ lastRun' = Ran("index", "", 0, clusters)
  /\ runs' = runs + 1
  /\ UNCHANGED <<storeVars, build, clustering, serving, response, indexing>>

\* cc synth of the core build: cc.initialize(), then CodeCollage.synthesize
CoreSynth ==
  /\ build = "core"
  /\ runs < MaxRuns
  /\ LET patterns == ExtractPatterns(snippetsLog, CoreConfig, nextId)
         ofType(t) == LET is(p) == p.type = t IN Len(SelectSeq(patterns, is))
     IN /\ patternsLog' = patternsLog \o patterns
        /\ metadata' = SaveMetadata(SaveMetadata(metadata, "config", "DEFAULT_CONFIG"),
                         "synthesisStats",
                         [totalPatterns |-> Len(patterns), ngramPatterns |-> ofType("ngram"),
                          lcsPatterns |-> ofType("lcs"), astPatterns |-> ofType("ast")])
        /\ nextId' = nextId + Len(patterns)
        /\ lastRun' = Ran("synth", "", 0, patterns)
  /\ runs' = runs + 1
  /\ UNCHANGED <<storeVars, build, snippetsLog, clustersLog, clustering, serving, response, indexing>>

\* cc serve: serveCommand builds the express app; the core build runs
\* cc.initialize() before it listens
Serve ==
  /\ ~serving
  /\ serving' = TRUE
  /\ metadata' = IF build = "core" THEN SaveMetadata(metadata, "config", "DEFAULT_CONFIG")
                 ELSE metadata
  /\ UNCHANGED <<storeVars, dataVars, clustering, nextId, runs, lastRun, response, indexing>>

\* the requests a client sends to the express app of serveCommand: method, path
\* with :id for the parameter, the parameter, and the type query of
\* /api/patterns ("" when absent); /api/data is a path without a route
CmdRequests ==
  [method : {"GET", "POST"},
   path : {"/api/clusters", "/api/stats", "/api/data", "/", "/api/impossibilitron/repair",
           "/api/impossibilitron/generate"},
   id : {0}, type : {""}]
  \cup [method : {"GET"}, path : {"/api/clusters/:id", "/api/snippets/:id"},
        id : 0..MaxSnippets, type : {""}]
  \cup [method : {"GET"}, path : {"/api/patterns"}, id : {0}, type : {"", "ngram", "lcs"}]

\* the requests a client sends to the server of serve.ts; /api/stats is a path
\* handleAPI does not know
CoreRequests ==
  [method : {"GET", "POST"}, path : {"/api/data", "/api/clusters", "/api/stats", "/"},
   id : {0}, type : {""}]
  \cup [method : {"GET"}, path : {"/api/cluster/:id", "/api/snippet/:id"},
        id : 0..MaxSnippets, type : {""}]

\* the response number seq of the server: its status and the number of
\* records in its body
Reply(status, items) == [seq |-> response.seq + 1, status |-> status, items |-> items]

\* the records of items whose snippets meet the snippets of cluster
PatternsOf(cluster, patterns) ==
  LET touches(p) == \E i \in 1..Len(p.snippets), j \in 1..Len(cluster.snippets) :
                      p.snippets[i] = cluster.snippets[j]
  IN SelectSeq(patterns, touches)

\* GET /api/patterns: filter by type, sort by descending frequency * confidence
\* (a confidence is k/n with n at most 6, or 8/10, so 60 * score is an integer),
\* slice to 100
PatternsBody(type) ==
  LET ofType(p) == type = "" \/ p.type = type
      rank(p) == <<(60 * p.frequency * p.confidence.num) \div p.confidence.den>>
      filteredPatterns == SortDescending(SelectSeq(patternsLog, ofType), rank)
  IN SubSeq(filteredPatterns, 1, IF Len(filteredPatterns) < 100 THEN Len(filteredPatterns) ELSE 100)

\* the responses the express app of serveCommand can give to req; no route
\* calls an append of the storage
RouteReplies(req) ==
  LET withId(record) == record.id = req.id
      found(records) == Len(SelectSeq(records, withId)) > 0
      get == req.method = "GET"
  IN CASE get /\ req.path = "/api/clusters" -> {Reply(200, Len(clustersLog))}
       [] get /\ req.path = "/api/clusters/:id" ->
            IF found(clustersLog)
            THEN {Reply(200, Len(PatternsOf(Head(SelectSeq(clustersLog, withId)), patternsLog)))}
            ELSE {Reply(404, 0)}
       [] get /\ req.path = "/api/snippets/:id" ->
            IF found(snippetsLog) THEN {Reply(200, 1)} ELSE {Reply(404, 0)}
       [] get /\ req.path = "/api/patterns" -> {Reply(200, Len(PatternsBody(req.type)))}
       [] get /\ req.path = "/api/stats" ->
            {Reply(200, Len(snippetsLog) + Len(clustersLog) + Len(patternsLog))}
       [] ~get /\ req.path \in {"/api/impossibilitron/repair", "/api/impossibilitron/generate"} ->
            {Reply(200, 1)}
       \* app.get('*'): ui/dist/index.html is there or not
       [] get /\ req.path \notin {"/api/clusters", "/api/clusters/:id", "/api/snippets/:id",
                                  "/api/patterns", "/api/stats"} ->
            {Reply(200, 0), Reply(404, 0)}
       [] OTHER -> {Reply(404, 0)}

\* GET /api/patterns that saves the sorted list it serves
ServeRequest_SavesSorted(req) ==
  /\ build = "commands"
  /\ serving
  /\ response.seq < MaxRequests
  /\ response' \in RouteReplies(req)
  /\ patternsLog' = IF req.path = "/api/patterns" THEN PatternsBody(req.type) ELSE patternsLog
  /\ UNCHANGED <<storeVars, build, snippetsLog, clustersLog, clustering, metadata, nextId,
                 runs, lastRun, serving, indexing>>

\* one request to the express app of serveCommand
ServeRequest(req) ==
  /\ build = "commands"
  /\ serving
  /\ response.seq < MaxRequests
  /\ response' \in RouteReplies(req)
  /\ UNCHANGED <<storeVars, dataVars, clustering, metadata, nextId, runs, lastRun, serving, indexing>>

\* handleAPI of serve.ts on cc.getData(), which loads the three logs
HandleAPI(req) ==
  LET withId(record) == record.id = req.id
      found(records) == Len(SelectSeq(records, withId)) > 0
      inCluster(snippet) ==
        LET cluster == Head(SelectSeq(clustersLog, withId))
        IN \E j \in 1..Len(cluster.snippets) : cluster.snippets[j] = snippet.id
  IN CASE req.path = "/api/data" ->
            Reply(200, Len(snippetsLog) + Len(clustersLog) + Len(patternsLog))
       [] req.path = "/api/clusters" -> Reply(200, Len(clustersLog))
       [] req.path = "/api/cluster/:id" ->
            IF found(clustersLog) THEN Reply(200, Len(SelectSeq(snippetsLog, inCluster)))
            ELSE Reply(404, 0)
       [] req.path = "/api/snippet/:id" ->
            IF found(snippetsLog) THEN Reply(200, 1) ELSE Reply(404, 0)
       [] OTHER -> Reply(404, 0)

\* one request to the server serve of serve.ts creates (OPTIONS is not sent);
\* every path of CoreRequests but "/" starts with /api
Request(req) ==
  /\ build = "core"
  /\ serving
  /\ response.seq < MaxRequests
  /\ response' = IF req.path = "/" THEN Reply(200, 0) ELSE HandleAPI(req)
  /\ UNCHANGED <<storeVars, dataVars, clustering, metadata, nextId, runs, lastRun, serving, indexing>>

Init ==
  /\ build \in {"commands", "core"}
  /\ snippetsLog = << >>
  /\ clustersLog = << >>
  /\ patternsLog = << >>
  /\ clustering = NoClustering
  /\ log = "data/snippets.jsonl"
  /\ file = << >>
  /\ written = << >>
  /\ torn = FALSE
  /\ ops = 0
  /\ scan = NoScan
  /\ IdleCli

Next ==
  \/ \E batch \in Batches : IngestCommand(batch, DefaultExtensions, 0)
  \/ \E seed \in Seeds : IndexCommand(seed)
  \/ \E type \in {"ngrams", "lcs", "ast"} : SynthCommand(type)
  \/ \E batch \in Batches : \E seeds \in [1..Len(batch) -> Seeds] : CoreIngest(batch, seeds)
  \/ CoreIndex
  \/ CoreSynth
  \/ Serve
  \/ \E req \in CmdRequests : ServeRequest(req)
  \/ \E req \in CoreRequests : Request(req)

Spec == Init /\ [][Next]_vars

-----------------------------------------------------------------------------
(* Properties of Spec.                                                      *)

\* C3: an index invocation on an empty snippet log, and a synth invocation on
\* an empty cluster log, exits with code 1 and leaves the cluster log, the
\* pattern log and the metadata sidecars as they were.
MissingPrerequisiteIsFatal ==
  [][(/\ runs' = runs + 1
      /\ \/ lastRun'.command = "index" /\ snippetsLog = << >>
         \/ lastRun'.command = "synth" /\ clustersLog = << >>)
     => /\ lastRun'.exitCode = 1
        /\ UNCHANGED <<clustersLog, patternsLog, metadata>>]_vars

\* C4: after an index run the cluster log holds exactly the clusters that run
\* produced, whatever index runs came before it.
ClusterLogIsLastIndexRun ==
  (lastRun.command = "index" /\ lastRun.exitCode = 0) => clustersLog = lastRun.output

\* a pattern without its generated id
PatternContent(p) == <<p.type, p.content, p.frequency, p.snippets>>

\* a and b hold the same patterns the same number of times
SamePatterns(a, b) ==
  LET times(p, patterns) ==
        Cardinality({k \in 1..Len(patterns) : PatternContent(patterns[k]) = p})
  IN /\ Len(a) = Len(b)
     /\ \A k \in 1..Len(a) : times(PatternContent(a[k]), a) = times(PatternContent(a[k]), b)

\* C5: a synth run that directly follows a synth run with the same options
\* leaves the pattern log the first of the two left, up to order and ids.
SynthTwiceIsSynthOnce ==
  (/\ lastRun.command = "synth" /\ lastRun.exitCode = 0
   /\ lastRun.previous = [command |-> "synth", options |-> lastRun.options])
  => SamePatterns(patternsLog, lastRun.before.patterns)

\* C8: the frequency of an ngram or ast pattern of the pattern log is the
\* number of distinct snippet ids on it, and the frequency of an lcs pattern
\* is 2.
FrequencyCountsSnippets ==
  \A k \in 1..Len(patternsLog) :
    LET pattern == patternsLog[k]
    IN IF pattern.type = "lcs" THEN pattern.frequency = 2
       ELSE pattern.frequency = Cardinality(Range(pattern.snippets))

\* C9: two snippets of the snippet log of the core build with the same token
\* list carry the same minHashes.
OneHashFamilyPerDataset ==
  build = "core" =>
    \A i, j \in 1..Len(snippetsLog) :
      snippetsLog[i].tokens = snippetsLog[j].tokens
      => snippetsLog[i].minHashes = snippetsLog[j].minHashes

\* C10: a step in which a server answers a request leaves the snippet log, the
\* cluster log and the pattern log unchanged.
HandlersOnlyRead ==
  [][response'.seq # response.seq => UNCHANGED <<snippetsLog, clustersLog, patternsLog>>]_vars

\* a request to the commands build was answered with 200 and a non-empty body
\* while the three logs held records
HandlersOnlyReadWitness ==
  /\ build = "commands"
  /\ response.seq > 0 /\ response.status = 200 /\ response.items > 0
  /\ Len(snippetsLog) > 0 /\ Len(clustersLog) > 0 /\ Len(patternsLog) > 0

\* C15: no two records of the cluster log share an id, and no two records of
\* the snippet log share an id.
RecordIdsAreUnique ==
  /\ \A i, j \in 1..Len(clustersLog) : clustersLog[i].id = clustersLog[j].id => i = j
  /\ \A i, j \in 1..Len(snippetsLog) : snippetsLog[i].id = snippetsLog[j].id => i = j

\* C19: after a synthesis run that mined n-grams, every n-gram that occurs in
\* k snippets of the corpus, k at least the minimum frequency of the build, has
\* exactly one ngram pattern in the output of the run, with frequency k and
\* exactly those k snippets; no two ngram patterns of the run share a content.
NGramPatternPerFrequentNGram ==
  (/\ lastRun.command = "synth" /\ lastRun.exitCode = 0
   /\ build = "commands" => lastRun.options = "ngrams") =>
    LET isNGram(p) == p.type = "ngram"
        patterns == SelectSeq(lastRun.output, isNGram)
        tokens(s) == IF build = "commands" THEN CodeTokenize(s.content) ELSE s.tokens
        ngrams == [s \in 1..Len(snippetsLog) |->
                     Range(GenerateShingles(tokens(snippetsLog[s]), 3))]
        holders(g) == {s \in 1..Len(snippetsLog) : g \in ngrams[s]}
        least == IF build = "commands" THEN MinFrequency ELSE 2
    IN /\ \A g \in UNION Range(ngrams) :
            Cardinality(holders(g)) >= least =>
              \E p \in 1..Len(patterns) :
                /\ patterns[p].content = g
                /\ patterns[p].frequency = Cardinality(holders(g))
                /\ Range(patterns[p].snippets) = {snippetsLog[s].id : s \in holders(g)}
       /\ \A p, q \in 1..Len(patterns) : patterns[p].content = patterns[q].content => p = q

\* C20: after a synthesis run that mined common subsequences, two snippets of
\* one cluster have an lcs pattern in the output of the run (frequency 2, the
\* two snippets, the common tokens joined by spaces) when the longest common
\* subsequence of their tokens has at least 3 tokens, and none otherwise.
LcsPatternPerClusterPair ==
  (/\ lastRun.command = "synth" /\ lastRun.exitCode = 0
   /\ build = "commands" => lastRun.options = "lcs") =>
    LET isLcs(p) == p.type = "lcs"
        patterns == SelectSeq(lastRun.output, isLcs)
        tokens(s) == IF build = "commands" THEN CodeTokenize(s.content) ELSE s.tokens
    IN \A c \in 1..Len(clustersLog) : \A a, b \in 1..Len(snippetsLog) :
         (/\ a < b
          /\ snippetsLog[a].id # snippetsLog[b].id
          /\ {snippetsLog[a].id, snippetsLog[b].id} \subseteq Range(clustersLog[c].snippets)) =>
           LET lcs == FindLCS(tokens(snippetsLog[a]), tokens(snippetsLog[b]))
               ofPair(p) == Range(patterns[p].snippets) = {snippetsLog[a].id, snippetsLog[b].id}
           IN IF Len(lcs) >= 3
              THEN \E p \in 1..Len(patterns) :
                     /\ ofPair(p)
                     /\ patterns[p].frequency = 2
                     /\ patterns[p].content = Join(lcs, 32)
              ELSE \A p \in 1..Len(patterns) : ~ofPair(p)

\* C25: when an index run of the core build has completed, every snippet of
\* the snippet log that a cluster of the cluster log lists carries the id of
\* that cluster as its clusterId, whether or not the run removed duplicates.
MembersCarryClusterId ==
  (build = "core" /\ lastRun.command = "index" /\ lastRun.exitCode = 0) =>
    \A c \in 1..Len(clustersLog) : \A k \in 1..Len(snippetsLog) :
      snippetsLog[k].id \in Range(clustersLog[c].snippets) =>
        snippetsLog[k].clusterId = clustersLog[c].id

\* C29: when an index run has completed, every snippet id a record of the
\* cluster log lists is the id of a record of the snippet log, also when the
\* run removed duplicates and wrote the snippet log anew.
ClusterMembersAreStored ==
  (lastRun.command = "index" /\ lastRun.exitCode = 0) =>
    \A c \in 1..Len(clustersLog) : \A id \in Range(clustersLog[c].snippets) :
      \E k \in 1..Len(snippetsLog) : snippetsLog[k].id = id

\* an index run of the core build removed a duplicate, wrote the snippet log
\* anew and left a cluster log that is not empty
ClusterMembersAreStoredWitness ==
  /\ build = "core" /\ lastRun.command = "index" /\ lastRun.exitCode = 0
  /\ Len(snippetsLog) < Len(lastRun.before.snippets)
  /\ Len(clustersLog) > 0

-----------------------------------------------------------------------------
(* SpecIngest: ingest invocations of both builds on paths that can be       *)
(* missing or unreadable, with any --extensions list and an appendSnippet   *)
(* that can throw.                                                          *)

\* the call of appendSnippet that throws is at most this one
MaxAppends == 2

IngestBatches == UNION {[1..n -> IngestFiles] : n \in 1..MaxBatch}

\* the values of --extensions
ExtensionLists == {DefaultExtensions, {"md"}}

NextIngest ==
  \/ \E batch \in IngestBatches : \E extensions \in ExtensionLists :
       \E failAt \in 0..MaxAppends : IngestCommand(batch, extensions, failAt)
  \/ \E batch \in IngestBatches : \E seeds \in [1..Len(batch) -> Seeds] :
       CoreIngest(batch, seeds)

SpecIngest == Init /\ [][NextIngest]_vars

\* the number of snippets input k of the last ingest gives when nothing fails
IngestYield(k) ==
  LET input == lastRun.options.paths[k]
  IN IF build = "core" THEN Len(IngestFile(input, 0, 1))
     ELSE IF input.ext \in lastRun.options.extensions THEN Len(Extracted[input].snippets)
     ELSE 0

\* C11: after an ingest whose appends all succeeded, the snippets of every
\* input that could be read were appended to the snippet log, whatever went
\* wrong with the other inputs, and the inputs that failed were counted.
FailedInputIsSkipped ==
  (lastRun.command = "ingest" /\ (build = "commands" => ~lastRun.appendFailed)) =>
    LET paths == lastRun.options.paths
        healthy == {k \in 1..Len(paths) : paths[k].fault = "none"}
        yields == [k \in 1..Len(paths) |-> IF k \in healthy THEN IngestYield(k) ELSE 0]
    IN /\ Len(lastRun.output) = SumSeq(Array(yields))
       /\ snippetsLog = lastRun.before.snippets \o lastRun.output
       /\ IF build = "core"
          THEN lastRun.skipped = Cardinality({k \in 1..Len(paths) : yields[k] = 0})
          ELSE lastRun.warnings = Len(paths) - Cardinality(healthy)

\* C12: an ingest of the commands build in which an appendSnippet threw exits
\* with code 2 after the records it had appended before, and appends nothing
\* after the failure.
AppendFailureIsFatal ==
  (lastRun.command = "ingest" /\ build = "commands" /\ lastRun.appendFailed) =>
    /\ lastRun.exitCode = 2
    /\ Len(lastRun.output) = lastRun.failAt - 1
    /\ snippetsLog = lastRun.before.snippets \o lastRun.output

\* C16: no snippet of the snippet log has the language unknown.
NoUnknownLanguageStored ==
  \A k \in 1..Len(snippetsLog) : snippetsLog[k].language # "unknown"

-----------------------------------------------------------------------------
(* SpecExtract: the first ingest on an empty data directory, of one file    *)
(* of up to MaxLines lines, with an --extensions list that lets it pass.    *)

NextExtract ==
  \E f \in ExtractFiles : runs = 0 /\ IngestCommand(<<f>>, {"js", "py", "md"}, 0)

\* an empty data directory and the cli of the commands build
InitExtract == Init /\ build = "commands"

SpecExtract == InitExtract /\ [][NextExtract]_vars

\* C18: the snippets extractSnippets gives for a file whose text splits into
\* n lines have 1 <= lineStart <= lineEnd <= n, their content is the lines
\* lineStart..lineEnd of the file joined by line feeds, and they come in
\* increasing line order.
SnippetsAreLineRanges ==
  (lastRun.command = "ingest" /\ Len(lastRun.options.paths) = 1) =>
    LET lines == Split(lastRun.options.paths[1].content, 10)
        snippets == lastRun.output
    IN \A k \in 1..Len(snippets) :
         /\ 1 <= snippets[k].lineStart
         /\ snippets[k].lineStart <= snippets[k].lineEnd
         /\ snippets[k].lineEnd <= Len(lines)
         /\ snippets[k].content
              = Join(SubSeq(lines, snippets[k].lineStart, snippets[k].lineEnd), 10)
         /\ k > 1 => snippets[k - 1].lineEnd < snippets[k].lineStart

\* a file of three lines gave two snippets: a function closed by its brace on
\* line 2 and a function that starts on line 3 and is closed by the end of
\* the file
SnippetsAreLineRangesWitness ==
  /\ lastRun.command = "ingest" /\ Len(lastRun.options.paths) = 1
  /\ Len(lastRun.output) = 2
  /\ lastRun.output[1].lineStart = 1 /\ lastRun.output[1].lineEnd = 2
  /\ lastRun.output[2].lineStart = 3 /\ lastRun.output[2].lineEnd = 3
  /\ snippetsLog = lastRun.output

\* C22: in a JavaScript file a snippet that was not ended by the end of the
\* file or by the start of the next function ends at a line whose trimmed text
\* is } and whose indentation in the file is at most that of the opening line
\* of the snippet, and it holds no earlier line of that kind; the } of a nested
\* block, indented deeper than the opening line, does not end it.
SnippetEndsAtOuterBrace ==
  (/\ lastRun.command = "ingest" /\ Len(lastRun.options.paths) = 1
   /\ lastRun.options.paths[1].ext = "js") =>
    LET lines == Split(lastRun.options.paths[1].content, 10)
        snippets == lastRun.output
        closes(l, s) == /\ Trim(lines[l]) = <<125>>
                        /\ GetIndentLevel(lines[l]) <= GetIndentLevel(lines[s])
    IN \A k \in 1..Len(snippets) :
         LET s == snippets[k].lineStart
             e == snippets[k].lineEnd
         IN /\ (/\ e < Len(lines)
                /\ ~IsFunctionStart(Trim(lines[e + 1]), "javascript")) => closes(e, s)
            /\ IsFunctionStart(Trim(lines[s]), "javascript") =>
                 \A l \in (s + 1)..(e - 1) : ~closes(l, s)

-----------------------------------------------------------------------------
(* SpecIndexing: cc index of the core build taken one awaited storage call  *)
(* at a time, so that it can be cancelled between two calls and a cc ingest *)
(* of another process can run in between (the one write of an ingest to the *)
(* snippet log is the fs.appendFile of saveSnippets).                       *)

\* what CodeCollage.index holds in memory once it has loaded, de-duplicated
\* and clustered the snippets, with the logs as they were when it started and
\* the first id that is generated after it
IndexPlan(allSnippets, uniqueSnippets, clusters) ==
  [step |-> "loaded", allSnippets |-> allSnippets,
   uniqueSnippets |-> AssignClusters(uniqueSnippets, clusters),
   duplicatesRemoved |-> Len(allSnippets) - Len(uniqueSnippets), clusters |-> clusters,
   nextId |-> nextId + Len(clusters),
   before |-> [snippets |-> snippetsLog, clusters |-> clustersLog, patterns |-> patternsLog]]

\* this.clusterer.clusterSnippets(uniqueSnippets) of index
IndexClusters(allSnippets, uniqueSnippets) ==
  IndexPlan(allSnippets, uniqueSnippets,
            CoreClusterSnippets(uniqueSnippets, CoreConfig, nextId))

\* cc index: cc.initialize(), then CodeCollage.index up to its first write
IndexStart ==
  /\ build = "core"
  /\ runs < MaxRuns
  /\ indexing.step \in {"none", "done", "cancelled"}
  /\ indexing' = IndexClusters(snippetsLog, Deduplicate(snippetsLog, CoreConfig))
  /\ nextId' = nextId + Len(indexing'.clusters)
  /\ metadata' = SaveMetadata(metadata, "config", "DEFAULT_CONFIG")
  /\ runs' = runs + 1
  /\ UNCHANGED <<storeVars, dataVars, clustering, lastRun, serving, response>>

\* the next awaited call of CodeCollage.index: saveClusters; when duplicates
\* were removed, the three unlinks of clearAll, saveSnippets and saveClusters;
\* saveMetadata
IndexStep ==
  /\ indexing.step \notin {"none", "done", "cancelled"}
  /\ LET step == indexing.step
         to(next) == indexing' = [indexing EXCEPT !.step = next]
     IN CASE step = "loaded" ->
               /\ clustersLog' = clustersLog \o indexing.clusters
               /\ to("saved")
               /\ UNCHANGED <<snippetsLog, patternsLog, metadata>>
          [] step = "saved" /\ indexing.duplicatesRemoved > 0 ->
               /\ snippetsLog' = << >>
               /\ to("unlinked snippets")
               /\ UNCHANGED <<clustersLog, patternsLog, metadata>>
          [] step = "unlinked snippets" ->
               /\ clustersLog' = << >>
               /\ to("unlinked clusters")
               /\ UNCHANGED <<snippetsLog, patternsLog, metadata>>
          [] step = "unlinked clusters" ->
               /\ patternsLog' = << >>
               /\ to("cleared")
               /\ UNCHANGED <<snippetsLog, clustersLog, metadata>>
          [] step = "cleared" ->
               /\ snippetsLog' = snippetsLog \o indexing.uniqueSnippets
               /\ to("saved snippets")
               /\ UNCHANGED <<clustersLog, patternsLog, metadata>>
          [] step = "saved snippets" ->
               /\ clustersLog' = clustersLog \o indexing.clusters
               /\ to("saved again")
               /\ UNCHANGED <<snippetsLog, patternsLog, metadata>>
          [] OTHER ->
               /\ metadata' = SaveMetadata(metadata, "indexStats",
                                [totalSnippets |-> Len(indexing.allSnippets),
                                 uniqueSnippets |-> Len(indexing.uniqueSnippets),
                                 duplicatesRemoved |-> indexing.duplicatesRemoved,
                                 totalClusters |-> Len(indexing.clusters)])
               /\ to("done")
               /\ UNCHANGED <<snippetsLog, clustersLog, patternsLog>>
  /\ UNCHANGED <<storeVars, build, clustering, nextId, runs, lastRun, serving, response>>

\* the process of cc index is killed between two awaited calls
IndexCancel ==
  /\ indexing.step \notin {"none", "done", "cancelled"}
  /\ indexing' = [indexing EXCEPT !.step = "cancelled"]
  /\ UNCHANGED <<storeVars, dataVars, clustering, metadata, nextId, runs, lastRun, serving,
                 response>>

\* the files of SpecIndexing
IndexingFiles ==
  {[ext |-> "js", content |-> TextRepeat, fault |-> "none"],
   [ext |-> "js", content |-> TextA, fault |-> "none"]}

IndexingBatches == UNION {[1..n -> IndexingFiles] : n \in 1..MaxBatch}

NextIndexing ==
  \/ \E batch \in IndexingBatches : \E seeds \in [1..Len(batch) -> Seeds] :
       CoreIngest(batch, seeds)
  \/ IndexStart
  \/ IndexStep
  \/ IndexCancel

\* an empty data directory and the cli of the core build
InitIndexing == Init /\ build = "core"

SpecIndexing == InitIndexing /\ [][NextIndexing]_vars

\* a is the beginning of b
IsPrefix(a, b) == Len(a) <= Len(b) /\ SubSeq(b, 1, Len(a)) = a

\* C13: when cc index was cancelled between two of its storage calls, the
\* cluster log holds the records it held before, followed by none or all of
\* the clusters of the run, and the snippet log still begins with the
\* records it held before.
CancelledIndexKeepsLogs ==
  indexing.step = "cancelled" =>
    /\ clustersLog \in {indexing.before.clusters,
                         indexing.before.clusters \o indexing.clusters}
    /\ IsPrefix(indexing.before.snippets, snippetsLog)

\* C14: once a cc index has finished, the snippets that a cc ingest appended
\* while it ran (their ids were generated after the index had loaded the
\* snippet log) are in the snippet log.
ConcurrentIngestIsKept ==
  (indexing.step = "done" /\ lastRun.command = "ingest") =>
    \A k \in 1..Len(lastRun.output) :
      lastRun.output[k].id >= indexing.nextId
      => \E j \in 1..Len(snippetsLog) : snippetsLog[j].id = lastRun.output[k].id

====
